---------------------------- MODULE Spec2Model ----------------------------
(***************************************************************************)
(* A model of the Smart Money structure detector (src/analysis.py), of    *)
(* the backtest simulator (src/backtest.py) and of the monitoring loop     *)
(* (src/core.py).                                                          *)
(*                                                                         *)
(* Conventions.                                                            *)
(*  - A candle series (pandas DataFrame) is a sequence of candle records.  *)
(*    The code indexes rows from 0; the accessors below take the code's    *)
(*    0-based index and read element index+1 of the sequence.              *)
(*  - Prices are integers; every comparison of the code that divides or    *)
(*    multiplies by a decimal constant is modelled by the equivalent       *)
(*    exact comparison of integers (cross-multiplied), so the model is     *)
(*    the code in exact arithmetic, without floating-point rounding.       *)
(*  - A timestamp (an element of the DatetimeIndex built by                *)
(*    ExchangeClient.get_ohlcv) is a record [ts |-> k]: it is not an       *)
(*    integer and cannot be ordered against one.                           *)
(*  - The trend column (sign of ema20 - ema50) and the rsi column come     *)
(*    from the indicator library and are input columns of the series.  An  *)
(*    rsi value is <<v>>, or <<>> for NaN.                                 *)
(*  - An absent value (None) is <<>> and a present one <<v>>.              *)
(***************************************************************************)
EXTENDS Integers, Sequences, FiniteSets, TLC

VARIABLES
    df,          \* the candle series handed to SmartMoneyAnalysis / fetched by backtest call 1
    pc,          \* detector object: "new" before construction, "ready" after
    structures,  \* SmartMoneyAnalysis.structures
    df2,         \* the candle series fetched by backtest call 2
    detector,    \* what answers find_trade_setups inside the backtest
    results,     \* what the backtest calls made so far gave back, in call order
    returned,    \* what the read operations called on the detector gave back, in call order
    assistant    \* the CryptoAssistant object and the position of its monitoring loop

vars == <<df, pc, structures, df2, detector, results, returned, assistant>>

\* core.py:16-27 and 87-103: a CryptoAssistant whose monitoring loop is
\* about to analyse the first pair of the first cycle.  log, sent and slept
\* record what the loop has done: the analyses made, the notifications
\* handed to send_telegram_notification, the sleeps taken.
NewAssistant(symbols, timeframes) ==
    [last_analysis |-> <<>>, symbols |-> symbols, timeframes |-> timeframes,
     cycle |-> 1, at |-> 1, analysis |-> <<>>, log |-> <<>>, sent |-> <<>>, slept |-> 0]

----------------------------------------------------------------------------
(* Generic helpers *)

Abs(x) == IF x < 0 THEN -x ELSE x
Min2(a, b) == IF a < b THEN a ELSE b
Max2(a, b) == IF a > b THEN a ELSE b

\* Python range(a, b) as a sequence
Range(a, b) == [k \in 1..(IF b > a THEN b - a ELSE 0) |-> a + k - 1]

\* Python range(a, b, -1) as a sequence (a, a-1, ..., b+1)
RangeDown(a, b) == [k \in 1..(IF a > b THEN a - b ELSE 0) |-> a - k + 1]

\* the concatenation of a sequence of sequences
RECURSIVE ConcatTo(_, _)
ConcatTo(ss, k) == IF k = 0 THEN <<>> ELSE ConcatTo(ss, k - 1) \o ss[k]
Concat(ss) == ConcatTo(ss, Len(ss))

RECURSIVE SumTo(_, _)
SumTo(s, k) == IF k = 0 THEN 0 ELSE SumTo(s, k - 1) + s[k]
SumSeq(s) == SumTo(s, Len(s))

SeqMax(s) == CHOOSE x \in {s[k] : k \in 1..Len(s)} : \A y \in {s[k] : k \in 1..Len(s)} : y <= x
SeqMin(s) == CHOOSE x \in {s[k] : k \in 1..Len(s)} : \A y \in {s[k] : k \in 1..Len(s)} : x <= y

\* x / y > p / q and x / y < p / q for q > 0, as numpy float64 evaluates them:
\* a zero divisor gives inf, -inf or nan (never an exception), and every
\* comparison with nan is False.
DivGt(x, y, p, q) ==
    IF y > 0 THEN x * q > p * y
    ELSE IF y < 0 THEN x * q < p * y
    ELSE x > 0
DivLt(x, y, p, q) ==
    IF y > 0 THEN x * q < p * y
    ELSE IF y < 0 THEN x * q > p * y
    ELSE x < 0

----------------------------------------------------------------------------
(* The series: accessors with the code's 0-based index *)

Open(d, i) == d[i + 1].open
High(d, i) == d[i + 1].high
Low(d, i) == d[i + 1].low
Close(d, i) == d[i + 1].close
Trend(d, i) == d[i + 1].trend
Timestamp(d, i) == d[i + 1].timestamp

\* TechnicalAnalysis._add_indicators: the derived columns
CandleRange(d, i) == High(d, i) - Low(d, i)
UpperWick(d, i) == High(d, i) - Max2(Open(d, i), Close(d, i))
LowerWick(d, i) == Min2(Open(d, i), Close(d, i)) - Low(d, i)

\* df.iloc[:k]
Prefix(d, k) == SubSeq(d, 1, Min2(k, Len(d)))

----------------------------------------------------------------------------
(* SmartMoneyAnalysis: the eight finders of _find_structures.  Each takes  *)
(* the series and the structures found so far and returns the structures   *)
(* with its own lists extended, as the method mutates self.structures.     *)

Window == 5
SfpHorizon == 10
ObLookback == 5

EmptyStructures ==
    [swing_highs |-> <<>>, swing_lows |-> <<>>, ob_buy |-> <<>>, ob_sell |-> <<>>,
     eqh |-> <<>>, eql |-> <<>>, bos |-> <<>>, bms |-> <<>>, sc |-> <<>>,
     wick |-> <<>>, sfp |-> <<>>, poi |-> <<>>]

PointRec(d, i, price, type) ==
    [index |-> i, timestamp |-> Timestamp(d, i), price |-> price, type |-> type]

RangeRec(d, i, type) ==
    [index |-> i, timestamp |-> Timestamp(d, i), price_high |-> High(d, i),
     price_low |-> Low(d, i), type |-> type]

\* a faulty variant: >= in place of > (a plateau counts as a swing high)
IsSwingHighNonStrict(d, i, window) ==
    /\ \A j \in 1..window : High(d, i) >= High(d, i - j)
    /\ \A j \in 1..window : High(d, i) >= High(d, i + j)

\* a faulty variant: only the window before the candle is tested
IsSwingLowOneSided(d, i, window) ==
    \A j \in 1..window : Low(d, i) < Low(d, i - j)

\* analysis.py:101-102 and 112-113, the two all(...) tests
IsSwingHigh(d, i, window) ==
    /\ \A j \in 1..window : High(d, i) > High(d, i - j)
    /\ \A j \in 1..window : High(d, i) > High(d, i + j)

IsSwingLow(d, i, window) ==
    /\ \A j \in 1..window : Low(d, i) < Low(d, i - j)
    /\ \A j \in 1..window : Low(d, i) < Low(d, i + j)

\* range(window, len(self.df) - window)
SwingCandidates(d, window) == Range(window, Len(d) - window)

FindSwingPoints(d, st, window) ==
    LET hi == SelectSeq(SwingCandidates(d, window), LAMBDA i : IsSwingHigh(d, i, window))
        lo == SelectSeq(SwingCandidates(d, window), LAMBDA i : IsSwingLow(d, i, window))
    IN [st EXCEPT
          !.swing_highs = @ \o [k \in 1..Len(hi) |-> PointRec(d, hi[k], High(d, hi[k]), "swing_high")],
          !.swing_lows = @ \o [k \in 1..Len(lo) |-> PointRec(d, lo[k], Low(d, lo[k]), "swing_low")]]

\* abs(current - previous) / previous < tolerance, tolerance = 0.001 = 1/1000
WithinTolerance(current, previous) == DivLt(Abs(current - previous), previous, 1, 1000)

\* a faulty variant: a swing is flagged when it matches any earlier swing of the list
EqualLevelsAllPairs(swings, type) ==
    LET ks == SelectSeq(Range(1, Len(swings)),
                        LAMBDA k : \E m \in 1..k :
                                      WithinTolerance(swings[k + 1].price, swings[m].price))
    IN [n \in 1..Len(ks) |->
          [index |-> swings[ks[n] + 1].index, timestamp |-> swings[ks[n] + 1].timestamp,
           price |-> swings[ks[n] + 1].price, type |-> type]]

\* the swings k (k >= 1, 0-based) of a list that are flagged against swing k-1
EqualLevels(swings, type) ==
    LET ks == SelectSeq(Range(1, Len(swings)),
                        LAMBDA k : WithinTolerance(swings[k + 1].price, swings[k].price))
    IN [n \in 1..Len(ks) |->
          [index |-> swings[ks[n] + 1].index, timestamp |-> swings[ks[n] + 1].timestamp,
           price |-> swings[ks[n] + 1].price, type |-> type]]

FindEqualLevels(d, st) ==
    [st EXCEPT !.eqh = @ \o EqualLevels(st.swing_highs, "eqh"),
               !.eql = @ \o EqualLevels(st.swing_lows, "eql")]

\* a faulty variant: the record is placed on the later swing itself, as soon
\* as it is lower than the earlier one, without waiting for a later candle
BosDownForSpeculative(d, swings, k) ==
    IF swings[k + 1].price < swings[k].price
    THEN <<PointRec(d, swings[k + 1].index, High(d, swings[k + 1].index), "bos_down")>>
    ELSE <<>>

\* analysis.py:163-171: the first j after the later swing whose high is below
\* the later swing's own price (the code reads swing_highs[i]['price'])
BosDownFor(d, swings, k) ==
    LET cur == swings[k + 1]
        js == SelectSeq(Range(cur.index + 1, Len(d)), LAMBDA j : High(d, j) < cur.price)
    IN IF swings[k + 1].price < swings[k].price /\ js # <<>>
       THEN <<PointRec(d, js[1], High(d, js[1]), "bos_down")>>
       ELSE <<>>

\* a faulty variant: the search does not stop at the first confirming candle
BosUpForEveryCandle(d, swings, k) ==
    LET cur == swings[k + 1]
        js == SelectSeq(Range(cur.index + 1, Len(d)), LAMBDA j : Low(d, j) > cur.price)
    IN IF swings[k + 1].price > swings[k].price
       THEN [n \in 1..Len(js) |-> PointRec(d, js[n], Low(d, js[n]), "bos_up")]
       ELSE <<>>

BosUpFor(d, swings, k) ==
    LET cur == swings[k + 1]
        js == SelectSeq(Range(cur.index + 1, Len(d)), LAMBDA j : Low(d, j) > cur.price)
    IN IF swings[k + 1].price > swings[k].price /\ js # <<>>
       THEN <<PointRec(d, js[1], Low(d, js[1]), "bos_up")>>
       ELSE <<>>

FindBosBms(d, st) ==
    [st EXCEPT !.bos =
        @ \o Concat([k \in 1..(Len(st.swing_highs) - 1) |-> BosDownFor(d, st.swing_highs, k)])
          \o Concat([k \in 1..(Len(st.swing_lows) - 1) |-> BosUpFor(d, st.swing_lows, k)])]

\* analysis.py:200-201 and 215-216: the impulse tests on candle i+1
BullishImpulse(d, i) ==
    /\ Close(d, i + 1) > Open(d, i + 1)
    /\ DivGt(Close(d, i + 1) - Open(d, i + 1), Open(d, i + 1), 1, 100)

BearishImpulse(d, i) ==
    /\ Close(d, i + 1) < Open(d, i + 1)
    /\ DivGt(Open(d, i + 1) - Close(d, i + 1), Open(d, i + 1), 1, 100)

\* for j in range(i, i-num_candles, -1): first bearish / bullish candle
ObBuyFor(d, i, num_candles) ==
    LET js == SelectSeq(RangeDown(i, i - num_candles), LAMBDA j : Close(d, j) < Open(d, j))
    IN IF BullishImpulse(d, i) /\ js # <<>> THEN <<RangeRec(d, js[1], "ob_buy")>> ELSE <<>>

ObSellFor(d, i, num_candles) ==
    LET js == SelectSeq(RangeDown(i, i - num_candles), LAMBDA j : Close(d, j) > Open(d, j))
    IN IF BearishImpulse(d, i) /\ js # <<>> THEN <<RangeRec(d, js[1], "ob_sell")>> ELSE <<>>

FindOrderBlocks(d, st, num_candles) ==
    LET is == Range(num_candles, Len(d) - 1)
    IN [st EXCEPT
          !.ob_buy = @ \o Concat([k \in 1..Len(is) |-> ObBuyFor(d, is[k], num_candles)]),
          !.ob_sell = @ \o Concat([k \in 1..Len(is) |-> ObSellFor(d, is[k], num_candles)])]

\* a faulty variant: >= in place of > (a value equal to the bound passes)
ExceedsMeanOrEqual(x, n, sum) == x * 2 * n >= 3 * sum

\* x > mean * 1.5 for the mean of a column of n values with the given sum:
\* x * 2 * n > 3 * sum
ExceedsMean(x, n, sum) == x * 2 * n > 3 * sum

\* a faulty variant: the candle's own direction is not tested
ScForAnyDirection(d, i, sum_range) ==
    IF ~ExceedsMean(CandleRange(d, i), Len(d), sum_range) THEN <<>>
    ELSE IF Close(d, i + 1) > High(d, i)
         THEN <<PointRec(d, i, High(d, i), "sc_up")>>
    ELSE IF Close(d, i + 1) < Low(d, i)
         THEN <<PointRec(d, i, Low(d, i), "sc_down")>>
    ELSE <<>>

ScFor(d, i, sum_range) ==
    IF ~ExceedsMean(CandleRange(d, i), Len(d), sum_range) THEN <<>>
    ELSE IF Close(d, i) > Open(d, i) /\ Close(d, i + 1) > High(d, i)
         THEN <<PointRec(d, i, High(d, i), "sc_up")>>
    ELSE IF Close(d, i) < Open(d, i) /\ Close(d, i + 1) < Low(d, i)
         THEN <<PointRec(d, i, Low(d, i), "sc_down")>>
    ELSE <<>>

FindSponsoredCandles(d, st) ==
    LET sum_range == SumSeq([k \in 1..Len(d) |-> CandleRange(d, k - 1)])
        is == Range(1, Len(d) - 1)
    IN [st EXCEPT !.sc = @ \o Concat([k \in 1..Len(is) |-> ScFor(d, is[k], sum_range)])]

WickFor(d, i, sum_upper, sum_lower) ==
    (IF ExceedsMean(UpperWick(d, i), Len(d), sum_upper)
     THEN <<PointRec(d, i, High(d, i), "wick_up")>> ELSE <<>>)
    \o
    (IF ExceedsMean(LowerWick(d, i), Len(d), sum_lower)
     THEN <<PointRec(d, i, Low(d, i), "wick_down")>> ELSE <<>>)

FindWicks(d, st) ==
    LET sum_upper == SumSeq([k \in 1..Len(d) |-> UpperWick(d, k - 1)])
        sum_lower == SumSeq([k \in 1..Len(d) |-> LowerWick(d, k - 1)])
    IN [st EXCEPT !.wick = @ \o Concat([k \in 1..Len(d) |-> WickFor(d, k - 1, sum_upper, sum_lower)])]

\* range(high_idx+1, min(high_idx+10, len(self.df)))
SfpScan(d, idx) == Range(idx + 1, Min2(idx + SfpHorizon, Len(d)))

SfpTopFor(d, swing) ==
    LET js == SelectSeq(SfpScan(d, swing.index),
                        LAMBDA j : High(d, j) > swing.price /\ Close(d, j) < swing.price)
    IN IF js # <<>> THEN <<PointRec(d, js[1], High(d, js[1]), "sfp_top")>> ELSE <<>>

SfpBottomFor(d, swing) ==
    LET js == SelectSeq(SfpScan(d, swing.index),
                        LAMBDA j : Low(d, j) < swing.price /\ Close(d, j) > swing.price)
    IN IF js # <<>> THEN <<PointRec(d, js[1], Low(d, js[1]), "sfp_bottom")>> ELSE <<>>

\* range(len(swings) - 1): every swing but the last of the list
SfpOrigins(swings) == SubSeq(swings, 1, Len(swings) - 1)

FindSfp(d, st) ==
    LET hs == SfpOrigins(st.swing_highs)
        ls == SfpOrigins(st.swing_lows)
    IN [st EXCEPT !.sfp = @ \o Concat([k \in 1..Len(hs) |-> SfpTopFor(d, hs[k])])
                            \o Concat([k \in 1..Len(ls) |-> SfpBottomFor(d, ls[k])])]

\* analysis.py:329-337: every non-POI record as (index, type), in the order
\* of the structures dict
AllStructures(st) ==
    LET lists == <<st.swing_highs, st.swing_lows, st.ob_buy, st.ob_sell, st.eqh,
                   st.eql, st.bos, st.bms, st.sc, st.wick, st.sfp>>
        all == Concat(lists)
    IN [k \in 1..Len(all) |-> [index |-> all[k].index, type |-> all[k].type]]

\* analysis.py:340-346: poi_indices[idx], the types recorded at idx in order
TypesAt(all, idx) ==
    LET hits == SelectSeq(all, LAMBDA s : s.index = idx)
    IN [k \in 1..Len(hits) |-> hits[k].type]

\* the keys of poi_indices in insertion order
RECURSIVE FirstSeen(_, _)
FirstSeen(all, seen) ==
    IF all = <<>> THEN <<>>
    ELSE IF Head(all).index \in seen THEN FirstSeen(Tail(all), seen)
    ELSE <<Head(all).index>> \o FirstSeen(Tail(all), seen \cup {Head(all).index})

\* analysis.py:350: if len(types) >= 2
IsPoi(types) == Len(types) >= 2

FindPoi(d, st) ==
    LET all == AllStructures(st)
        idxs == SelectSeq(FirstSeen(all, {}), LAMBDA idx : IsPoi(TypesAt(all, idx)))
    IN [st EXCEPT !.poi = @ \o
          [k \in 1..Len(idxs) |->
             [index |-> idxs[k], timestamp |-> Timestamp(d, idxs[k]),
              price_high |-> High(d, idxs[k]), price_low |-> Low(d, idxs[k]),
              structures |-> TypesAt(all, idxs[k]), type |-> "poi"]]]

\* SmartMoneyAnalysis._find_structures: the eight finders in order
FindStructures(d) ==
    FindPoi(d,
      FindSfp(d,
        FindWicks(d,
          FindSponsoredCandles(d,
            FindOrderBlocks(d,
              FindBosBms(d,
                FindEqualLevels(d,
                  FindSwingPoints(d, EmptyStructures, Window))),
              ObLookback)))))

----------------------------------------------------------------------------
(* SmartMoneyAnalysis: the synthesis operations *)

KeyStructures ==
    {"ob_buy", "ob_sell", "eqh", "eql", "sfp_top", "sfp_bottom", "wick_up", "wick_down"}

\* config.py: retracement levels, in thousandths
PREMIUM_ZONE == 618
DISCOUNT_ZONE == 382
EQUILIBRIUM_LEVEL == 500

\* a faulty variant: the zone is measured from the first swing before the
\* POI, not from the most recent one
OteForFirstSwing(d, st, poi) ==
    IF ~(\E k \in 1..Len(poi.structures) : poi.structures[k] \in KeyStructures) THEN <<>>
    ELSE IF Trend(d, poi.index) > 0
    THEN LET prev == SelectSeq(st.swing_lows, LAMBDA sl : sl.index < poi.index)
         IN IF prev = <<>> THEN <<>>
            ELSE <<[timestamp |-> poi.timestamp,
                    price_low |-> 1000 * poi.price_high
                                    - (poi.price_high - prev[1].price) * PREMIUM_ZONE,
                    price_high |-> 1000 * poi.price_high
                                    - (poi.price_high - prev[1].price) * EQUILIBRIUM_LEVEL,
                    type |-> "ote_buy_premium"]>>
    ELSE LET prev == SelectSeq(st.swing_highs, LAMBDA sh : sh.index < poi.index)
         IN IF prev = <<>> THEN <<>>
            ELSE <<[timestamp |-> poi.timestamp,
                    price_low |-> 1000 * poi.price_low
                                    + (prev[1].price - poi.price_low) * EQUILIBRIUM_LEVEL,
                    price_high |-> 1000 * poi.price_low
                                    + (prev[1].price - poi.price_low) * DISCOUNT_ZONE,
                    type |-> "ote_sell_discount"]>>

\* analysis.py:374-414 for one POI.  Zone prices are kept in thousandths of
\* a price unit (price * 1000), so that the products with the levels are exact.
OteFor(d, st, poi) ==
    IF ~(\E k \in 1..Len(poi.structures) : poi.structures[k] \in KeyStructures) THEN <<>>
    ELSE IF Trend(d, poi.index) > 0
    THEN LET prev == SelectSeq(st.swing_lows, LAMBDA sl : sl.index < poi.index)
         IN IF prev = <<>> THEN <<>>
            ELSE LET swing_range == poi.price_high - prev[Len(prev)].price
                 IN <<[timestamp |-> poi.timestamp,
                       price_low |-> 1000 * poi.price_high - swing_range * PREMIUM_ZONE,
                       price_high |-> 1000 * poi.price_high - swing_range * EQUILIBRIUM_LEVEL,
                       type |-> "ote_buy_premium"]>>
    ELSE LET prev == SelectSeq(st.swing_highs, LAMBDA sh : sh.index < poi.index)
         IN IF prev = <<>> THEN <<>>
            ELSE LET swing_range == prev[Len(prev)].price - poi.price_low
                 IN <<[timestamp |-> poi.timestamp,
                       price_low |-> 1000 * poi.price_low + swing_range * EQUILIBRIUM_LEVEL,
                       price_high |-> 1000 * poi.price_low + swing_range * DISCOUNT_ZONE,
                       type |-> "ote_sell_discount"]>>

FindOptimalTradeEntry(d, st) ==
    Concat([k \in 1..Len(st.poi) |-> OteFor(d, st, st.poi[k])])

\* analysis.py:436 and 453: 'ote_buy' in ote['type'] and
\* bos['index'] - 5 <= ote['timestamp'] <= bos['index'] + 5.  The second
\* operand orders an int against a pandas Timestamp, which raises TypeError;
\* it is evaluated exactly when the first operand is true.
OteComparisonReached(bos, ote) ==
    \/ bos.type = "bos_up" /\ ote.type = "ote_buy_premium"
    \/ bos.type = "bos_down" /\ ote.type = "ote_sell_discount"

\* analysis.py:468-486
SfpSetup(sfp) ==
    IF sfp.type = "sfp_top"
    THEN <<[timestamp |-> sfp.timestamp, price |-> sfp.price, type |-> "sell_setup"]>>
    ELSE IF sfp.type = "sfp_bottom"
    THEN <<[timestamp |-> sfp.timestamp, price |-> sfp.price, type |-> "buy_setup"]>>
    ELSE <<>>

\* a faulty variant: zones located by index, so that the proximity test is
\* decided instead of raising; a break with a confirming record then gets
\* one setup appended for every zone that passes the test
HasConfirmation(st, bos) ==
    \/ \E k \in 1..Len(st.ob_buy) :
          bos.type = "bos_up" /\ st.ob_buy[k].index - 3 <= bos.index /\ bos.index <= st.ob_buy[k].index + 3
    \/ \E k \in 1..Len(st.ob_sell) :
          bos.type = "bos_down" /\ st.ob_sell[k].index - 3 <= bos.index /\ bos.index <= st.ob_sell[k].index + 3
    \/ \E k \in 1..Len(st.sc) :
          /\ st.sc[k].type = (IF bos.type = "bos_up" THEN "sc_up" ELSE "sc_down")
          /\ st.sc[k].index - 3 <= bos.index /\ bos.index <= st.sc[k].index + 3
    \/ \E k \in 1..Len(st.wick) :
          /\ st.wick[k].type = (IF bos.type = "bos_up" THEN "wick_down" ELSE "wick_up")
          /\ st.wick[k].index - 3 <= bos.index /\ bos.index <= st.wick[k].index + 3

BosSetupsByIndex(st, zones, bos) ==
    LET hits == SelectSeq(zones, LAMBDA z : /\ OteComparisonReached(bos, z)
                                            /\ bos.index - 5 <= z.timestamp.ts
                                            /\ z.timestamp.ts <= bos.index + 5
                                            /\ HasConfirmation(st, bos))
    IN [n \in 1..Len(hits) |->
          [timestamp |-> bos.timestamp, price |-> bos.price,
           type |-> IF bos.type = "bos_up" THEN "buy_setup" ELSE "sell_setup"]]

FindTradeSetupsByIndex(d, st) ==
    [raised |-> FALSE,
     setups |-> Concat([k \in 1..Len(st.bos) |->
                           BosSetupsByIndex(st, FindOptimalTradeEntry(d, st), st.bos[k])])
                \o Concat([k \in 1..Len(st.sfp) |-> SfpSetup(st.sfp[k])])]

\* find_trade_setups: [raised |-> TRUE] when the TypeError leaves the method,
\* else the returned list.  A BOS contributes a setup only through the
\* comparison above, so a call that returns has appended SFP setups only.
FindTradeSetups(d, st) ==
    LET zones == FindOptimalTradeEntry(d, st)
    IN IF \E b \in 1..Len(st.bos), z \in 1..Len(zones) : OteComparisonReached(st.bos[b], zones[z])
       THEN [raised |-> TRUE, setups |-> <<>>]
       ELSE [raised |-> FALSE,
             setups |-> Concat([k \in 1..Len(st.sfp) |-> SfpSetup(st.sfp[k])])]

\* config.py
RSI_OVERBOUGHT == 70
RSI_OVERSOLD == 30

\* analysis.py:513: last_idx - 10 <= struct['index'] <= last_idx
NearbySpan == 10

\* analysis.py:512-518 for one list of the structures dict.  Prices of the
\* market context are kept in halves of a price unit (price * 2), so that the
\* midpoint (price_high + price_low) / 2 is exact.
NearbyOf(list, last_idx) ==
    LET hits == SelectSeq(list, LAMBDA s : last_idx - NearbySpan <= s.index /\ s.index <= last_idx)
    IN [k \in 1..Len(hits) |->
          [type |-> hits[k].type, timestamp |-> hits[k].timestamp,
           price |-> IF "price" \in DOMAIN hits[k] THEN 2 * hits[k].price
                     ELSE hits[k].price_high + hits[k].price_low]]

\* analysis.py:510-518: every list but the swings, in the order of the dict
NearbyStructures(st, last_idx) ==
    Concat([k \in 1..10 |->
              NearbyOf(<<st.ob_buy, st.ob_sell, st.eqh, st.eql, st.bos, st.bms, st.sc,
                         st.wick, st.sfp, st.poi>>[k], last_idx)])

Midpoints(list) == [k \in 1..Len(list) |-> list[k].price_high + list[k].price_low]
Doubled(list) == [k \in 1..Len(list) |-> 2 * list[k].price]

\* a faulty variant: a level equal to the last close counts as support
SupportLevelsInclusive(st, last_close) ==
    SelectSeq(Doubled(st.swing_lows) \o Midpoints(st.ob_buy), LAMBDA x : x <= 2 * last_close)

\* analysis.py:525-527 and 535-538
SupportLevels(st, last_close) ==
    SelectSeq(Doubled(st.swing_lows) \o Midpoints(st.ob_buy), LAMBDA x : x < 2 * last_close)

\* analysis.py:530-532 and 540-543
ResistanceLevels(st, last_close) ==
    SelectSeq(Doubled(st.swing_highs) \o Midpoints(st.ob_sell), LAMBDA x : x > 2 * last_close)

\* analysis.py:546-554
NearestSupport(levels) == IF levels = <<>> THEN <<>> ELSE <<SeqMax(levels)>>
NearestResistance(levels) == IF levels = <<>> THEN <<>> ELSE <<SeqMin(levels)>>

TrendDesc(t) == IF t > 0 THEN "up" ELSE IF t < 0 THEN "down" ELSE "sideways"

\* analysis.py:557-567, for a series with a last candle
Context(d, st, last_idx) ==
    [timestamp |-> Timestamp(d, last_idx),
     close |-> 2 * Close(d, last_idx),
     trend |-> TrendDesc(Trend(d, last_idx)),
     nearby_structures |-> NearbyStructures(st, last_idx),
     nearest_support |-> NearestSupport(SupportLevels(st, Close(d, last_idx))),
     nearest_resistance |-> NearestResistance(ResistanceLevels(st, Close(d, last_idx))),
     rsi |-> d[last_idx + 1].rsi,
     is_overbought |-> \E k \in 1..Len(d[last_idx + 1].rsi) : d[last_idx + 1].rsi[k] > RSI_OVERBOUGHT,
     is_oversold |-> \E k \in 1..Len(d[last_idx + 1].rsi) : d[last_idx + 1].rsi[k] < RSI_OVERSOLD]

\* get_current_market_context: self.df.index[-1] (analysis.py:499) raises
\* IndexError on a series without rows
GetCurrentMarketContext(d, st) ==
    IF Len(d) = 0 THEN [raised |-> TRUE]
    ELSE [raised |-> FALSE, value |-> Context(d, st, Len(d) - 1)]

----------------------------------------------------------------------------
(* Exact fractions for the money arithmetic of the backtest: a value is    *)
(* [n, d] with d > 0 in lowest terms, so equal values are equal records.   *)

RECURSIVE Gcd(_, _)
Gcd(a, b) == IF b = 0 THEN a ELSE Gcd(b, a % b)

\* The values a float can take besides the finite ones: inf is [1, 0], -inf
\* is [-1, 0] and nan is [0, 0].  numpy's float64 arithmetic gives these on
\* a zero divisor instead of raising.
NaN == [n |-> 0, d |-> 0]
IsNan(a) == a.d = 0 /\ a.n = 0
Sgn(x) == IF x > 0 THEN 1 ELSE IF x < 0 THEN -1 ELSE 0

Rat(n, d) ==
    IF d = 0 THEN [n |-> Sgn(n), d |-> 0]
    ELSE LET g == Gcd(Abs(n), Abs(d))
             sgn == IF d < 0 THEN -1 ELSE 1
         IN [n |-> (sgn * n) \div g, d |-> (sgn * d) \div g]

RInt(x) == [n |-> x, d |-> 1]
RNeg(a) == [n |-> -a.n, d |-> a.d]
RInv(a) == IF a.n < 0 THEN [n |-> -a.d, d |-> -a.n] ELSE [n |-> a.d, d |-> a.n]

\* common factors are taken out before multiplying, to keep the products small
RAddOver(a, b, g) == Rat(a.n * (b.d \div g) + b.n * (a.d \div g), (a.d \div g) * b.d)
RAdd(a, b) ==
    IF a.d # 0 /\ b.d # 0 THEN RAddOver(a, b, Gcd(a.d, b.d))
    ELSE IF IsNan(a) \/ IsNan(b) THEN NaN
    ELSE IF a.d # 0 THEN b
    ELSE IF b.d # 0 \/ a = b THEN a
    ELSE NaN
RSub(a, b) == RAdd(a, RNeg(b))
RMulOver(a, b, g1, g2) == Rat((a.n \div g1) * (b.n \div g2), (a.d \div g2) * (b.d \div g1))
RMul(a, b) ==
    IF a.d # 0 /\ b.d # 0 THEN RMulOver(a, b, Gcd(Abs(a.n), b.d), Gcd(Abs(b.n), a.d))
    ELSE [n |-> Sgn(a.n) * Sgn(b.n), d |-> 0]
\* x / 0 is inf, -inf or nan by the sign of x, x / inf is 0, inf / inf is nan
RDiv(a, b) ==
    IF a.d # 0 /\ b.d # 0 /\ b.n # 0 THEN RMul(a, RInv(b))
    ELSE IF IsNan(a) \/ IsNan(b) \/ (a.d = 0 /\ b.d = 0) THEN NaN
    ELSE IF b.d = 0 THEN RInt(0)
    ELSE IF a.d = 0 THEN [n |-> IF b.n < 0 THEN -a.n ELSE a.n, d |-> 0]
    ELSE [n |-> Sgn(a.n), d |-> 0]
\* whole parts first, then the remainders, to keep the products small; every
\* comparison with nan is False
RLt(a, b) ==
    IF a.d # 0 /\ b.d # 0
    THEN IF a.n \div a.d # b.n \div b.d THEN a.n \div a.d < b.n \div b.d
         ELSE (a.n % a.d) * b.d < (b.n % b.d) * a.d
    ELSE IF IsNan(a) \/ IsNan(b) THEN FALSE
    ELSE IF a.d = 0 /\ b.d = 0 THEN a.n < b.n
    ELSE IF a.d = 0 THEN a.n < 0
    ELSE b.n > 0
RLe(a, b) == ~IsNan(a) /\ ~IsNan(b) /\ ~RLt(b, a)
\* Python's max(a, b): b when b > a, else a
RMax(a, b) == IF RLt(a, b) THEN b ELSE a

----------------------------------------------------------------------------
(* backtest_strategy (src/backtest.py), called without start_date *)

WarmUp == 50
Horizon == 20
AtrSpan == 20
StartEquity == 1000

\* a faulty variant: a snapshot that is not cut at the current candle
SnapshotWhole(d, i) == d

\* backtest.py:61  subset_df = df.iloc[:i+1]
Snapshot(d, i) == Prefix(d, i + 1)

\* backtest.py:64-70: the setups found on the snapshot of step i.  The
\* detector is the repository's SmartMoneyAnalysis, or a stand-in that
\* answers each step from a fixed table (synthetic setups).
TradeSetupsOn(det, subset, i) ==
    IF det.kind = "smc"
    THEN FindTradeSetups(subset, FindStructures(subset))
    ELSE [raised |-> FALSE, setups |-> det.answers[i]]

\* a faulty variant: no test of the setup's candle
IsAcceptedAlways(setup, subset) == TRUE

\* backtest.py:76  setup['timestamp'] == subset_df.index[-1]
IsAccepted(setup, subset) == setup.timestamp = Timestamp(subset, Len(subset) - 1)

\* a faulty variant: the range taken over the 20 rows before the last one
AtrBeforeLast(subset) ==
    LET rows == Range(Max2(0, Len(subset) - 1 - AtrSpan), Len(subset) - 1)
    IN SeqMax([k \in 1..Len(rows) |-> High(subset, rows[k])])
       - SeqMin([k \in 1..Len(rows) |-> Low(subset, rows[k])])

\* backtest.py:87  max of high minus min of low over the last 20 rows
Atr(subset) ==
    LET rows == Range(Max2(0, Len(subset) - AtrSpan), Len(subset))
    IN SeqMax([k \in 1..Len(rows) |-> High(subset, rows[k])])
       - SeqMin([k \in 1..Len(rows) |-> Low(subset, rows[k])])

\* backtest.py:96  range(i+1, min(i+20, len(df)))
ScanRange(d, i) == Range(i + 1, Min2(i + Horizon, Len(d)))

\* backtest.py:102, 108, 116, 122: the level tests on one candle
StopTouched(d, j, direction, stop_loss) ==
    IF direction = 1 THEN RLe(RInt(Low(d, j)), stop_loss) ELSE RLe(stop_loss, RInt(High(d, j)))

TargetTouched(d, j, direction, take_profit) ==
    IF direction = 1 THEN RLe(take_profit, RInt(High(d, j))) ELSE RLe(RInt(Low(d, j)), take_profit)

\* backtest.py:96-125: the candles of the scan that touch a level, in scan order
Touching(d, i, direction, stop_loss, take_profit) ==
    SelectSeq(ScanRange(d, i),
              LAMBDA j : \/ StopTouched(d, j, direction, stop_loss)
                         \/ TargetTouched(d, j, direction, take_profit))

\* a faulty variant: the target tested before the stop
ExitOnTargetFirst(d, j, direction, stop_loss, take_profit) ==
    IF TargetTouched(d, j, direction, take_profit)
    THEN [price |-> take_profit, reason |-> "take_profit"]
    ELSE [price |-> stop_loss, reason |-> "stop_loss"]

\* backtest.py:100-125: on a touching candle the stop is tested before the target
ExitOn(d, j, direction, stop_loss, take_profit) ==
    IF StopTouched(d, j, direction, stop_loss)
    THEN [price |-> stop_loss, reason |-> "stop_loss"]
    ELSE [price |-> take_profit, reason |-> "take_profit"]

\* backtest.py:128-130
TimeoutExit(d, i) ==
    [price |-> RInt(Close(d, Min2(i + Horizon, Len(d) - 1))), reason |-> "timeout"]

\* backtest.py:92-130: the exit of a trade entered after candle i
ExitAmong(d, i, direction, stop_loss, take_profit, hits) ==
    IF hits = <<>> THEN TimeoutExit(d, i)
    ELSE ExitOn(d, hits[1], direction, stop_loss, take_profit)

TradeExit(d, i, direction, stop_loss, take_profit) ==
    ExitAmong(d, i, direction, stop_loss, take_profit,
              Touching(d, i, direction, stop_loss, take_profit))

\* a faulty variant: gains that do not compound: every trade sized on the starting equity
EquityAfterFlat(equity, pnl_pct) ==
    RAdd(equity, RDiv(RMul(RInt(StartEquity), pnl_pct), RInt(100)))

\* backtest.py:137  equity += equity * pnl_pct / 100
EquityAfter(equity, pnl_pct) == RAdd(equity, RDiv(RMul(equity, pnl_pct), RInt(100)))

\* backtest.py:134  pnl / entry_price * 100
PnlPct(pnl, entry_price) == RMul(RDiv(pnl, entry_price), RInt(100))

\* backtest.py:146-155: the record appended to trades
TradeRecord(setup, entry_price, exit, pnl, pnl_pct, equity) ==
    [timestamp |-> setup.timestamp, type |-> setup.type, entry_price |-> entry_price,
     exit_price |-> exit.price, exit_reason |-> exit.reason, pnl |-> pnl,
     pnl_pct |-> pnl_pct, equity |-> EquityAfter(equity, pnl_pct)]

\* backtest.py:133-155
Settle(setup, entry_price, direction, exit, pnl, equity) ==
    TradeRecord(setup, entry_price, exit, pnl, PnlPct(pnl, entry_price), equity)

ClosedTrade(setup, entry_price, direction, exit, equity) ==
    Settle(setup, entry_price, direction, exit,
           RMul(RSub(exit.price, entry_price), RInt(direction)), equity)

\* backtest.py:88-130
Bracket(d, i, setup, entry_price, direction, atr, equity) ==
    ClosedTrade(setup, entry_price, direction,
           TradeExit(d, i, direction,
                     RSub(entry_price, Rat(direction * atr, 2)),
                     RAdd(entry_price, Rat(direction * atr * 3, 2))),
           equity)

\* backtest.py:78-155: one accepted setup becomes one trade
Trade(d, i, subset, setup, equity) ==
    Bracket(d, i, setup, RInt(Open(d, i + 1)),
            IF setup.type = "buy_setup" THEN 1 ELSE -1, Atr(subset), equity)

\* backtest.py:137-155: the locals after a trade
Booked(loc, t, setup) ==
    [loc EXCEPT !.trades = Append(@, t),
                !.equity = t.equity,
                !.win_count = IF t.pnl.n > 0 THEN @ + 1 ELSE @,
                !.loss_count = IF t.pnl.n > 0 THEN @ ELSE @ + 1,
                !.accepted = Append(@, setup)]

\* backtest.py:74-155: the setups of one step, in order
RECURSIVE ProcessSetups(_, _, _, _, _, _)
ProcessSetups(d, i, subset, found, k, loc) ==
    IF k > Len(found) THEN loc
    ELSE ProcessSetups(d, i, subset, found, k + 1,
                       IF IsAccepted(found[k], subset)
                       THEN Booked(loc, Trade(d, i, subset, found[k], loc.equity), found[k])
                       ELSE loc)

\* steps records, for every step entered, the setups it accepted
Logged(i, after) ==
    [after EXCEPT !.steps = Append(@, [i |-> i, raised |-> FALSE, accepted |-> after.accepted])]

\* backtest.py:70-155: a raise of find_trade_setups leaves the call; a
\* returned list is processed
StepWith(d, i, subset, found, loc) ==
    IF found.raised
    THEN [loc EXCEPT !.raised = TRUE,
                     !.steps = Append(@, [i |-> i, raised |-> TRUE, accepted |-> <<>>])]
    ELSE Logged(i, ProcessSetups(d, i, subset, found.setups, 1, [loc EXCEPT !.accepted = <<>>]))

StepOn(d, det, i, subset, loc) == StepWith(d, i, subset, TradeSetupsOn(det, subset, i), loc)

\* backtest.py:60-155: the body of the loop for step i
Step(d, det, i, loc) == StepOn(d, det, i, Snapshot(d, i), loc)

\* backtest.py:59  for i in range(50, len(df)-1), from step i on
RECURSIVE BacktestLoop(_, _, _, _)
BacktestLoop(d, det, i, loc) ==
    IF loc.raised \/ i >= Len(d) - 1 THEN loc
    ELSE BacktestLoop(d, det, i + 1, Step(d, det, i, loc))

\* a faulty variant: locals that outlive the call: equity continues from the previous call
InitialLocalsCarried(earlier) ==
    [trades |-> <<>>,
     equity |-> IF earlier # <<>> /\ earlier[Len(earlier)].outcome = "result"
                THEN earlier[Len(earlier)].final_equity ELSE RInt(StartEquity),
     win_count |-> 0, loss_count |-> 0, accepted |-> <<>>, steps |-> <<>>, raised |-> FALSE]

\* backtest.py:53-56: the locals of a call; earlier calls leave nothing behind
InitialLocals(earlier) ==
    [trades |-> <<>>, equity |-> RInt(StartEquity), win_count |-> 0, loss_count |-> 0,
     accepted |-> <<>>, steps |-> <<>>, raised |-> FALSE]

\* a faulty variant: the drawdown is measured from the starting equity, the
\* peak never follows the equity up
RECURSIVE MaxDrawdownFromStart(_, _, _, _)
MaxDrawdownFromStart(trades, k, max_equity, max_drawdown) ==
    IF k > Len(trades) THEN max_drawdown
    ELSE MaxDrawdownFromStart(trades, k + 1, max_equity,
                              RMax(max_drawdown,
                                   RMul(RDiv(RSub(max_equity, trades[k].equity), max_equity),
                                        RInt(100))))

\* backtest.py:163-169
RECURSIVE MaxDrawdown(_, _, _, _)
MaxDrawdown(trades, k, max_equity, max_drawdown) ==
    IF k > Len(trades) THEN max_drawdown
    ELSE MaxDrawdown(trades, k + 1, RMax(max_equity, trades[k].equity),
                     RMax(max_drawdown,
                          RMul(RDiv(RSub(RMax(max_equity, trades[k].equity), trades[k].equity),
                                    RMax(max_equity, trades[k].equity)),
                               RInt(100))))

RECURSIVE SumPnlPct(_, _)
SumPnlPct(trades, k) == IF k = 0 THEN RInt(0) ELSE RAdd(SumPnlPct(trades, k - 1), trades[k].pnl_pct)

\* backtest.py:157-188: the summary returned, or the exception that left the loop
Summary(d, loc, total_trades) ==
    IF loc.raised THEN [outcome |-> "raised", steps |-> loc.steps]
    ELSE [outcome |-> "result",
          start_date |-> Timestamp(d, 0),
          end_date |-> Timestamp(d, Len(d) - 1),
          total_trades |-> total_trades,
          win_count |-> loc.win_count,
          loss_count |-> loc.loss_count,
          win_rate |-> IF total_trades > 0
                       THEN Rat(loc.win_count * 100, total_trades) ELSE RInt(0),
          avg_profit |-> IF total_trades > 0
                         THEN RDiv(SumPnlPct(loc.trades, total_trades), RInt(total_trades))
                         ELSE RInt(0),
          final_equity |-> loc.equity,
          roi |-> RMul(RDiv(RSub(loc.equity, RInt(1000)), RInt(1000)), RInt(100)),
          max_drawdown |-> MaxDrawdown(loc.trades, 1, RInt(1000), RInt(0)),
          trades |-> loc.trades,
          steps |-> loc.steps]

Finish(d, loc) == Summary(d, loc, Len(loc.trades))

\* backtest.py:42-44 and 52-188: what the call gives back
BacktestStrategy(d, det, earlier) ==
    IF Len(d) = 0 THEN [outcome |-> "none"]
    ELSE Finish(d, BacktestLoop(d, det, WarmUp, InitialLocals(earlier)))

----------------------------------------------------------------------------
(* Input series.  A series is a run of flat candles interrupted by a few   *)
(* shaped candles.  Two shaped candles are adjacent (gap 0) or Window      *)
(* flat candles apart (the nearest two swings can be); the first shaped    *)
(* candle sits at index Window - 1 or Window and the last one Window - 1   *)
(* or Window candles before the end, on either side of the eligibility     *)
(* bounds of the swing scan.  The trend column is uniform over a series.   *)

Candle(o, h, l, c) ==
    [open |-> o, high |-> h, low |-> l, close |-> c, trend |-> 0, rsi |-> <<>>,
     timestamp |-> [ts |-> 0]]

Flat == Candle(900, 900, 900, 900)
U1 == Candle(900, 1000, 900, 900)    \* upper wick, high 1000
U2 == Candle(900, 1001, 900, 900)    \* upper wick, high 1001: 1/1000 above U1
D1 == Candle(900, 900, 860, 900)     \* lower wick
D2 == Candle(900, 900, 861, 900)     \* lower wick, low 861: more than 1/1000 above D1
D0 == Candle(900, 900, 0, 900)       \* lower wick down to a price of 0
Bear == Candle(900, 900, 891, 891)   \* bearish body of exactly 1%
Bull == Candle(891, 920, 891, 920)   \* bullish body above 1%, opening at Bear's close
Drop == Candle(920, 920, 870, 870)   \* bearish body above 1%
Rise == Candle(920, 950, 920, 950)   \* bullish body closing above Bull's high
Mid == Candle(905, 910, 890, 895)    \* bearish body above 1%, (high + low) / 2 = 900

Palette == {U1, U2, D1, Bear, Bull, Drop, Rise}
Gaps == {0, Window}
EdgeGaps == {Window - 1, Window}
Trends == {-1, 0, 1}
MaxEvents == 3

FlatRun(g) == [k \in 1..g |-> Flat]

\* events are <<candle, number of flat candles after it>>
RECURSIVE Layout(_)
Layout(evs) ==
    IF evs = <<>> THEN <<>>
    ELSE <<Head(evs)[1]>> \o FlatRun(Head(evs)[2]) \o Layout(Tail(evs))

\* the DatetimeIndex and the trend column of a series
Stamp(s, t) == [k \in 1..Len(s) |-> [s[k] EXCEPT !.trend = t, !.timestamp = [ts |-> k - 1]]]

EventLists(K, palette) ==
    UNION {{e \in [1..k -> palette \X (Gaps \cup EdgeGaps)] :
              \A n \in 1..k : e[n][2] \in (IF n = k THEN EdgeGaps ELSE Gaps)} : k \in 0..K}

\* the series of the family laid out from (lead, events, trend)
Series(lead, e, t) == Stamp(FlatRun(lead) \o Layout(e), t)

----------------------------------------------------------------------------
(* The detector object: construction, then the read operations *)

\* __init__ and _find_structures do not read the trend column; the series
\* handed to the constructor here carry trend 0
Init ==
    /\ \E lead \in EdgeGaps, e \in EventLists(MaxEvents, Palette), t \in {0} :
          df = Series(lead, e, t)
    /\ pc = "new"
    /\ structures = EmptyStructures
    /\ df2 = <<>>
    /\ detector = [kind |-> "smc"]
    /\ results = <<>>
    /\ returned = <<>>
    /\ assistant = NewAssistant(<<>>, <<>>)

\* SmartMoneyAnalysis.__init__
Construct ==
    /\ pc = "new"
    /\ structures' = FindStructures(df)
    /\ pc' = "ready"
    /\ UNCHANGED <<assistant, df, df2, detector, results, returned>>

Next == Construct

Spec == Init /\ [][Next]_vars

----------------------------------------------------------------------------
(* The read operations of a constructed detector, called in any order.     *)
(* The series are those of the family above with wick candles Window flat  *)
(* candles apart (so that swings, breaks, failure patterns, POIs and OTE   *)
(* zones of both directions occur), series with adjacent body candles (so  *)
(* that order blocks occur), and the series without shaped candles:        *)
(* of every length from 0 (no rows) up, at price 0, at price 900, or       *)
(* alternating between 900 and 901.                                        *)

ReadPalette == {U1, U2, D1, D2, D0}
MaxReadEvents == 3
MaxFlatLen == 12
MaxCalls == 2

\* (trend, rsi) of a series
Readings == {<<-1, <<20>>>>, <<0, <<>>>>, <<1, <<50>>>>, <<1, <<80>>>>}

ReadEventLists ==
    UNION {{e \in [1..k -> ReadPalette \X {Window - 1, Window}] :
              \A n \in 1..k : e[n][2] = Window \/ n = k} : k \in 1..MaxReadEvents}

ObPalette == {Bear, Bull, Drop, Mid}

ObEventLists ==
    UNION {{e \in [1..k -> ObPalette \X {0, Window - 1, Window}] :
              \A n \in 1..k : e[n][2] = (IF n = k THEN e[k][2] ELSE 0) /\ e[k][2] # 0} :
           k \in 1..MaxReadEvents}

WithRsi(s, r) == [k \in 1..Len(s) |-> [s[k] EXCEPT !.rsi = r]]

Level(shape, k) ==
    IF shape = "zero" THEN Candle(0, 0, 0, 0)
    ELSE IF shape = "level" THEN Flat
    ELSE Candle(900 + (k % 2), 900 + (k % 2), 900 + (k % 2), 900 + (k % 2))

FlatSeries(n, shape) == [k \in 1..n |-> Level(shape, k)]

ReadSeries ==
    {WithRsi(Series(Window, e, m[1]), m[2]) : e \in ReadEventLists \cup ObEventLists,
                                              m \in Readings}
    \cup {WithRsi(Stamp(FlatSeries(n, shape), 0), <<>>) :
             n \in 0..MaxFlatLen, shape \in {"zero", "level", "alternating"}}

InitReads ==
    /\ df \in ReadSeries
    /\ pc = "new"
    /\ structures = EmptyStructures
    /\ df2 = <<>>
    /\ detector = [kind |-> "smc"]
    /\ results = <<>>
    /\ returned = <<>>
    /\ assistant = NewAssistant(<<>>, <<>>)

\* what a call leaves in the history: the operation, whether an exception
\* left it, and the value it returned
Call(op, raised, value) == [op |-> op, raised |-> raised, value |-> value]

\* a faulty variant: the call consumes the POIs of the detector
CallFindOptimalTradeEntryStoring ==
    /\ pc = "ready"
    /\ Len(returned) < MaxCalls
    /\ returned' = Append(returned, Call("find_optimal_trade_entry", FALSE,
                                         FindOptimalTradeEntry(df, structures)))
    /\ structures' = [structures EXCEPT !.poi = <<>>]
    /\ UNCHANGED <<assistant, df, pc, df2, detector, results>>

\* smc.find_optimal_trade_entry()
CallFindOptimalTradeEntry ==
    /\ pc = "ready"
    /\ Len(returned) < MaxCalls
    /\ returned' = Append(returned, Call("find_optimal_trade_entry", FALSE,
                                         FindOptimalTradeEntry(df, structures)))
    /\ UNCHANGED <<assistant, df, pc, structures, df2, detector, results>>

\* smc.find_trade_setups()
CallFindTradeSetups ==
    /\ pc = "ready"
    /\ Len(returned) < MaxCalls
    /\ returned' = Append(returned, Call("find_trade_setups",
                                         FindTradeSetups(df, structures).raised,
                                         FindTradeSetups(df, structures).setups))
    /\ UNCHANGED <<assistant, df, pc, structures, df2, detector, results>>

\* smc.get_current_market_context()
CallGetCurrentMarketContext ==
    /\ pc = "ready"
    /\ Len(returned) < MaxCalls
    /\ returned' = Append(returned,
                          IF GetCurrentMarketContext(df, structures).raised
                          THEN Call("get_current_market_context", TRUE, <<>>)
                          ELSE Call("get_current_market_context", FALSE,
                                    <<GetCurrentMarketContext(df, structures).value>>))
    /\ UNCHANGED <<assistant, df, pc, structures, df2, detector, results>>

NextReads ==
    \/ Construct
    \/ CallFindOptimalTradeEntry
    \/ CallFindTradeSetups
    \/ CallGetCurrentMarketContext

SpecReads == InitReads /\ [][NextReads]_vars

----------------------------------------------------------------------------
(* The backtest with the repository's own detector.  Two calls are made,   *)
(* the first on df and the second on df2, which is df or df with one       *)
(* candle after the warm-up replaced.  The series are long enough for the  *)
(* loop to run and for swings to appear just before and inside the steps.  *)

BtLen == 56
BtLens == {WarmUp + 2, BtLen}
BtLeads == {WarmUp - 2 * Window - 2, WarmUp - Window - 1}
BtPalette == {U1, U2}
MaxBtEvents == 2
AltPositions == {WarmUp + 1, WarmUp + 2}

BtEventLists == UNION {[1..k -> BtPalette \X {Window}] : k \in 0..MaxBtEvents}

BtSeries(n, lead, e, t) == Stamp(Prefix(FlatRun(lead) \o Layout(e) \o FlatRun(n), n), t)

Replaced(d, p, c) ==
    [k \in 1..Len(d) |-> IF k = p + 1
                         THEN [c EXCEPT !.trend = d[k].trend, !.timestamp = d[k].timestamp]
                         ELSE d[k]]

InitBacktest ==
    /\ \E n \in BtLens, lead \in BtLeads, e \in BtEventLists, t \in Trends :
          /\ df = BtSeries(n, lead, e, t)
          /\ \/ df2 = df
             \/ \E p \in AltPositions, c \in BtPalette : p < n /\ df2 = Replaced(df, p, c)
    /\ detector = [kind |-> "smc"]
    /\ results = <<>>
    /\ returned = <<>>
    /\ assistant = NewAssistant(<<>>, <<>>)
    /\ pc = "new"
    /\ structures = EmptyStructures

\* one call of backtest_strategy, from the fetch of the series to the return
RunBacktest ==
    /\ Len(results) < 2
    /\ results' = Append(results,
                         BacktestStrategy(IF Len(results) = 0 THEN df ELSE df2, detector, results))
    /\ UNCHANGED <<assistant, df, df2, detector, pc, structures, returned>>

NextBacktest == RunBacktest

SpecBacktest == InitBacktest /\ [][NextBacktest]_vars

----------------------------------------------------------------------------
(* The backtest with setups supplied.  find_trade_setups is answered from  *)
(* a table: at the first two steps it may report setups on the snapshot's  *)
(* last candle (either direction) or on an earlier candle; at the other    *)
(* steps it reports none.  Both calls fetch the same series.  Prices are   *)
(* small so that the exact fractions stay within the integer range.        *)

Quiet == Candle(10, 10, 10, 10)
Wide == Candle(10, 11, 9, 10)
Up == Candle(11, 13, 10, 12)
Down == Candle(10, 10, 7, 9)
Spike == Candle(10, 13, 7, 10)

SimPalette == {Wide, Up, Down, Spike}
SimPositions == {WarmUp, WarmUp + 1, WarmUp + Horizon - 1, WarmUp + Horizon}
SimLens == {WarmUp + 3, WarmUp + Horizon + 1}
MaxSimEvents == 2
MaxSetups == 2

Placings ==
    UNION {[P -> SimPalette] : P \in {Q \in SUBSET SimPositions : Cardinality(Q) <= MaxSimEvents}}

SimSeries(n, placing, t) ==
    Stamp([k \in 1..n |-> IF k - 1 \in DOMAIN placing THEN placing[k - 1] ELSE Quiet], t)

SetupAt(d, idx, type) == [timestamp |-> Timestamp(d, idx), price |-> Close(d, idx), type |-> type]

FirstAnswers(d) ==
    LET kinds == {SetupAt(d, WarmUp, "buy_setup"), SetupAt(d, WarmUp, "sell_setup"),
                  SetupAt(d, WarmUp - 1, "sell_setup")}
    IN UNION {[1..k -> kinds] : k \in 0..MaxSetups}

SecondAnswers(d) == {<<>>, <<SetupAt(d, WarmUp + 1, "buy_setup")>>}

Answers(d, first, second) ==
    [i \in WarmUp..(Len(d) - 2) |->
        IF i = WarmUp THEN first ELSE IF i = WarmUp + 1 THEN second ELSE <<>>]

InitSim ==
    /\ \E n \in SimLens, placing \in Placings, t \in {0} :
          /\ df = SimSeries(n, placing, t)
          /\ \E first \in FirstAnswers(df), second \in SecondAnswers(df) :
                detector = [kind |-> "stub", answers |-> Answers(df, first, second)]
    /\ df2 = df
    /\ results = <<>>
    /\ returned = <<>>
    /\ assistant = NewAssistant(<<>>, <<>>)
    /\ pc = "new"
    /\ structures = EmptyStructures

NextSim == RunBacktest

SpecSim == InitSim /\ [][NextSim]_vars

----------------------------------------------------------------------------
(* The backtest with setups supplied, on series where the candle after the *)
(* first step may open at 0: the entry price of a trade accepted at step   *)
(* WarmUp is then 0.                                                       *)

ZeroOpen == Candle(0, 10, 0, 10)
ZeroFlat == Candle(0, 0, 0, 0)

ZeroLens == {WarmUp + 2, WarmUp + 3}
LastCandles == {Quiet, Wide, Spike}
EntryCandles == {ZeroOpen, ZeroFlat, Quiet, Up}

ZeroSeries(n, last, entry) ==
    Stamp([k \in 1..n |-> IF k - 1 = WarmUp THEN last
                          ELSE IF k - 1 = WarmUp + 1 THEN entry ELSE Quiet], 0)

InitZeroEntry ==
    /\ \E n \in ZeroLens, last \in LastCandles, entry \in EntryCandles :
          /\ df = ZeroSeries(n, last, entry)
          /\ \E first \in FirstAnswers(df), second \in SecondAnswers(df) :
                detector = [kind |-> "stub", answers |-> Answers(df, first, second)]
    /\ df2 = df
    /\ results = <<>>
    /\ returned = <<>>
    /\ assistant = NewAssistant(<<>>, <<>>)
    /\ pc = "new"
    /\ structures = EmptyStructures

NextZeroEntry == RunBacktest

SpecZeroEntry == InitZeroEntry /\ [][NextZeroEntry]_vars

----------------------------------------------------------------------------
(* The monitoring loop, CryptoAssistant.run_continuous_analysis            *)
(* (src/core.py).  One thread runs the loop; pc is its position: "loop"    *)
(* before the analysis of pair `at` of the current cycle, "notify" after   *)
(* an analysis that returned setups, "sleep" after the last pair of a      *)
(* cycle, "stopped" once an exception has reached the handler around the   *)
(* while loop.  Each analysis fetches one of four series: nothing, a       *)
(* series without setups, a series with a failure pattern, a series on     *)
(* which find_trade_setups raises.                                         *)

MaxCycles == 2
Symbols == <<"BTC/USDT", "ETH/USDT">>
Timeframes == <<"1h", "4h">>

\* what ExchangeClient.get_ohlcv may give: None (or no rows), or a series
Fetches ==
    {<<>>,
     Series(Window, <<<<U1, Window>>>>, 0),
     Series(Window, <<<<U1, Window>>, <<U2, Window>>>>, 0),
     Series(Window, <<<<U2, Window>>, <<U1, Window>>>>, 0)}

\* core.py:102-103: the number of pairs of a cycle, and pair k in the order
\* of the two for loops
PairCount(a) == Len(a.symbols) * Len(a.timeframes)
PairAt(a, k) ==
    [symbol |-> a.symbols[((k - 1) \div Len(a.timeframes)) + 1],
     timeframe |-> a.timeframes[((k - 1) % Len(a.timeframes)) + 1]]

\* core.py:29-85: analyze_market on the fetched series d: None without
\* data; an exception of find_trade_setups leaves the method before
\* last_analysis is assigned; else the result is stored and returned
AnalysisResult(pair, d, found, clock) ==
    [symbol |-> pair.symbol, timeframe |-> pair.timeframe, timestamp |-> clock,
     last_price |-> Close(d, Len(d) - 1), trade_setups |-> found.setups]

Analysed(a, pair, d, found, clock) ==
    IF found.raised THEN [raised |-> TRUE, value |-> <<>>, last_analysis |-> a.last_analysis]
    ELSE [raised |-> FALSE, value |-> <<AnalysisResult(pair, d, found, clock)>>,
          last_analysis |-> <<[df |-> d, result |-> AnalysisResult(pair, d, found, clock)]>>]

AnalyzeMarket(a, pair, d, clock) ==
    IF Len(d) = 0 THEN [raised |-> FALSE, value |-> <<>>, last_analysis |-> a.last_analysis]
    ELSE Analysed(a, pair, d, FindTradeSetups(d, FindStructures(d)), clock)

\* what an analysis came to, for the log
Outcome(r) ==
    IF r.raised THEN "raised"
    ELSE IF r.value = <<>> THEN "nothing"
    ELSE IF r.value[1].trade_setups = <<>> THEN "quiet" ELSE "setups"

\* the for loops move on: the next pair, or the sleep after the last one
NextPosition(a) == IF a.at < PairCount(a) THEN "loop" ELSE "sleep"
Advanced(a) == [a EXCEPT !.at = IF a.at < PairCount(a) THEN a.at + 1 ELSE a.at,
                         !.analysis = <<>>]

\* core.py:104-112 with 144-145: one analysis of the loop.  An exception
\* of analyze_market reaches the handler around the while loop, which logs
\* it and returns; `if not analysis: continue`; with setups the body goes
\* on to the notification
AfterAnalysis(a, r) ==
    [a EXCEPT !.last_analysis = r.last_analysis,
              !.analysis = r.value,
              !.log = Append(@, [cycle |-> a.cycle, at |-> a.at, outcome |-> Outcome(r)])]

AnalysePair ==
    /\ pc = "loop"
    /\ \E d \in Fetches :
          LET r == AnalyzeMarket(assistant, PairAt(assistant, assistant.at), d,
                                 Len(assistant.log) + 1)
          IN /\ pc' = (IF Outcome(r) = "raised" THEN "stopped"
                       ELSE IF Outcome(r) = "setups" THEN "notify"
                       ELSE NextPosition(assistant))
             /\ assistant' = (IF Outcome(r) \in {"nothing", "quiet"}
                              THEN Advanced(AfterAnalysis(assistant, r))
                              ELSE AfterAnalysis(assistant, r))
    /\ UNCHANGED <<df, structures, df2, detector, results, returned>>

\* core.py:114-137 with 144-145: the body for an analysis with setups.
\* `from visualization import plot_chart` (line 119) runs before the message
\* is built and sent; src/visualization.py defines the class ChartVisualizer
\* and no name plot_chart, so the statement raises ImportError, which
\* reaches the handler around the while loop: nothing is sent and the loop
\* is left
Notify ==
    /\ pc = "notify"
    /\ pc' = "stopped"
    /\ assistant' = [assistant EXCEPT !.analysis = <<>>]
    /\ UNCHANGED <<df, structures, df2, detector, results, returned>>

\* core.py:139-140: time.sleep(interval_minutes * 60), then the next cycle
Sleep ==
    /\ pc = "sleep"
    /\ assistant.cycle < MaxCycles
    /\ pc' = "loop"
    /\ assistant' = [assistant EXCEPT !.cycle = @ + 1, !.at = 1, !.slept = @ + 1]
    /\ UNCHANGED <<df, structures, df2, detector, results, returned>>

InitMonitor ==
    /\ \E ns \in 1..Len(Symbols), nt \in 1..Len(Timeframes) :
          assistant = NewAssistant(SubSeq(Symbols, 1, ns), SubSeq(Timeframes, 1, nt))
    /\ pc = "loop"
    /\ df = <<>>
    /\ df2 = <<>>
    /\ detector = [kind |-> "smc"]
    /\ results = <<>>
    /\ returned = <<>>
    /\ structures = EmptyStructures

NextMonitor == AnalysePair \/ Notify \/ Sleep

SpecMonitor == InitMonitor /\ [][NextMonitor]_vars

----------------------------------------------------------------------------
(* Claims about the detector, checked under Spec *)

Ready == pc = "ready"
N == Len(df)
Indices(list) == {list[k].index : k \in 1..Len(list)}
CountAt(list, idx) == Cardinality({k \in 1..Len(list) : list[k].index = idx})
StrictlyIncreasing(list) == \A k \in 1..(Len(list) - 1) : list[k].index < list[k + 1].index

\* C7: with window 5, index i is reported as a swing high exactly when it is
\* interior (5 <= i < n - 5) and high[i] is strictly above the five highs
\* before and the five highs after it; the same for swing lows on low, with
\* strictly below.  Each such index is reported once, with its own price.
C7_SwingPointsExact ==
    Ready =>
      /\ \A i \in 0..(N - 1) :
            /\ (i \in Indices(structures.swing_highs)) <=>
                  (/\ 5 <= i /\ i < N - 5
                   /\ \A j \in 1..5 : df[i + 1].high > df[i + 1 - j].high
                                      /\ df[i + 1].high > df[i + 1 + j].high)
            /\ (i \in Indices(structures.swing_lows)) <=>
                  (/\ 5 <= i /\ i < N - 5
                   /\ \A j \in 1..5 : df[i + 1].low < df[i + 1 - j].low
                                      /\ df[i + 1].low < df[i + 1 + j].low)
            /\ CountAt(structures.swing_highs, i) <= 1
            /\ CountAt(structures.swing_lows, i) <= 1
      /\ \A k \in 1..Len(structures.swing_highs) :
            structures.swing_highs[k].price = df[structures.swing_highs[k].index + 1].high
      /\ \A k \in 1..Len(structures.swing_lows) :
            structures.swing_lows[k].price = df[structures.swing_lows[k].index + 1].low

\* a series whose only candle below the flat level is one interior candle:
\* exactly one swing low, at that candle (and a swing high somewhere)
C7_Witness ==
    /\ Ready
    /\ Len(structures.swing_lows) = 1
    /\ Cardinality({i \in 1..N : df[i].low < 900}) = 1
    /\ df[structures.swing_lows[1].index + 1].low < 900
    /\ Len(structures.swing_highs) >= 1

\* C8: two distinct swing highs are at least window + 1 = 6 indices apart,
\* and so are two distinct swing lows; both lists are in strictly increasing
\* index order.
C8_SwingsSpaced ==
    Ready =>
      /\ \A a, b \in Indices(structures.swing_highs) : a < b => b - a >= 6
      /\ \A a, b \in Indices(structures.swing_lows) : a < b => b - a >= 6
      /\ StrictlyIncreasing(structures.swing_highs)
      /\ StrictlyIncreasing(structures.swing_lows)

\* two swing highs exactly 6 apart, and two swing lows
C8_Witness ==
    /\ Ready
    /\ \E a, b \in Indices(structures.swing_highs) : b - a = 6
    /\ Len(structures.swing_lows) >= 2

\* the claim's test on a pair of prices, |cur - prev| / prev < 0.001, for
\* the positive prices of the input series
ClaimedEqual(cur, prev) == Abs(cur - prev) * 1000 < prev

\* the equal-level list holds exactly one record for every swing k >= 1 that
\* matches swing k-1, carrying the index and the price of swing k
EqualLevelsAsClaimed(swings, eq, type) ==
    /\ \A k \in 2..Len(swings) :
          IF ClaimedEqual(swings[k].price, swings[k - 1].price)
          THEN /\ CountAt(eq, swings[k].index) = 1
               /\ \E e \in 1..Len(eq) :
                     /\ eq[e].index = swings[k].index
                     /\ eq[e].price = swings[k].price
                     /\ eq[e].timestamp = swings[k].timestamp
                     /\ eq[e].type = type
          ELSE CountAt(eq, swings[k].index) = 0
    /\ \A e \in 1..Len(eq) : \E k \in 2..Len(swings) : eq[e].index = swings[k].index
    /\ Len(swings) >= 1 => Len(eq) <= Len(swings) - 1
    /\ Len(swings) = 0 => Len(eq) = 0

\* C9: an eqh record exists at swing high k >= 1 exactly when its price is
\* within the tolerance of the price of swing k-1, relative to swing k-1; the
\* record carries the index and price of swing k; swings that are not
\* neighbours in the list are never compared, and m swings give at most m-1
\* records.  The same for swing lows and eql.
C9_EqualLevelsAdjacent ==
    Ready =>
      /\ EqualLevelsAsClaimed(structures.swing_highs, structures.eqh, "eqh")
      /\ EqualLevelsAsClaimed(structures.swing_lows, structures.eql, "eql")

\* three swing highs: the second is flagged against the first, the third is
\* not flagged although its price equals the price of the first
C9_Witness ==
    /\ Ready
    /\ Len(structures.swing_highs) = 3
    /\ structures.swing_highs[3].price = structures.swing_highs[1].price
    /\ Indices(structures.eqh) = {structures.swing_highs[2].index}

\* the non-POI records of the structures, as a bag of (index, type)
NonPoiLists ==
    <<structures.swing_highs, structures.swing_lows, structures.ob_buy, structures.ob_sell,
      structures.eqh, structures.eql, structures.bos, structures.bms, structures.sc,
      structures.wick, structures.sfp>>
RecordsAt(idx) == SumSeq([l \in 1..Len(NonPoiLists) |-> CountAt(NonPoiLists[l], idx)])
KindsAt(idx) ==
    UNION {{NonPoiLists[l][k].type : k \in {j \in 1..Len(NonPoiLists[l]) :
                                                NonPoiLists[l][j].index = idx}} :
           l \in 1..Len(NonPoiLists)}

PoiWellFormed ==
    \A p \in 1..Len(structures.poi) :
        /\ CountAt(structures.poi, structures.poi[p].index) = 1
        /\ structures.poi[p].price_high = df[structures.poi[p].index + 1].high
        /\ structures.poi[p].price_low = df[structures.poi[p].index + 1].low

\* C10: an index hosts a POI exactly when records of at least 2
\* distinct kinds are located there; one POI per index at most, with the high
\* and low of the host candle.
C10_PoiDistinctKinds ==
    Ready =>
      /\ \A i \in 0..(N - 1) :
            (i \in Indices(structures.poi)) <=> Cardinality(KindsAt(i)) >= 2
      /\ PoiWellFormed

\* what _find_poi does instead: an index hosts a POI exactly when at least 2
\* non-POI records are located there, of different kinds or of one and the
\* same kind (an order block appended twice counts twice).
C10_PoiTwoRecords ==
    Ready =>
      /\ \A i \in 0..(N - 1) :
            (i \in Indices(structures.poi)) <=> RecordsAt(i) >= 2
      /\ PoiWellFormed

\* a POI at an index whose two records are of one and the same kind
C10_Witness ==
    /\ Ready
    /\ \E i \in Indices(structures.poi) : Cardinality(KindsAt(i)) = 1 /\ RecordsAt(i) = 2

\* the breaks the rule of C11 gives for the swing list sw: for each consecutive
\* pair that steps down (dir = -1) or up (dir = 1), the earliest candle after
\* the later swing that lies beyond the price of the earlier swing
BreachAsClaimed(sw, k, dir) ==
    LET cands == {j \in (sw[k + 1].index + 1)..(N - 1) :
                     IF dir = -1 THEN High(df, j) < sw[k].price ELSE Low(df, j) > sw[k].price}
        steps == IF dir = -1 THEN sw[k + 1].price < sw[k].price ELSE sw[k + 1].price > sw[k].price
    IN IF steps /\ cands # {}
       THEN <<[index |-> CHOOSE j \in cands : \A m \in cands : j <= m,
               type |-> IF dir = -1 THEN "bos_down" ELSE "bos_up"]>>
       ELSE <<>>

BosAsClaimed ==
    Concat([k \in 1..(Len(structures.swing_highs) - 1) |->
               BreachAsClaimed(structures.swing_highs, k, -1)])
    \o Concat([k \in 1..(Len(structures.swing_lows) - 1) |->
               BreachAsClaimed(structures.swing_lows, k, 1)])

\* C11: the bos records are exactly, pair by pair, one bos_down for each
\* consecutive swing-high pair whose later high is lower, placed on the
\* earliest candle after the later swing whose high is below the price of
\* the earlier swing, and one bos_up for each higher low, placed on the
\* earliest later candle whose low is above the earlier low; a pair without
\* such a candle gives no record.  Each record carries the candle's high
\* (bos_down) or low (bos_up).
C11_BosAtEarliestBreach ==
    Ready =>
      /\ [k \in 1..Len(structures.bos) |->
            [index |-> structures.bos[k].index, type |-> structures.bos[k].type]] = BosAsClaimed
      /\ \A k \in 1..Len(structures.bos) :
            /\ structures.bos[k].index \in 0..(N - 1)
            /\ structures.bos[k].price = (IF structures.bos[k].type = "bos_down"
                                          THEN High(df, structures.bos[k].index)
                                          ELSE Low(df, structures.bos[k].index))

\* three swing highs, the second higher than the first (no break) and the
\* third lower than the second (a break on the candle after the third)
C11_Witness ==
    /\ Ready
    /\ Len(structures.swing_highs) = 3
    /\ structures.swing_highs[2].price > structures.swing_highs[1].price
    /\ structures.swing_highs[3].price < structures.swing_highs[2].price
    /\ Len(structures.bos) = 1
    /\ structures.bos[1].index = structures.swing_highs[3].index + 1

\* the stepping pairs of C27: positions k of a swing list whose later swing
\* is lower (dir = -1) or higher (dir = 1) than the earlier one
SteppingPairs(sw, dir) ==
    SelectSeq([k \in 1..(Len(sw) - 1) |-> k],
              LAMBDA k : IF dir = -1 THEN sw[k + 1].price < sw[k].price
                         ELSE sw[k + 1].price > sw[k].price)

NextCandleBos(sw, dir) ==
    [n \in 1..Len(SteppingPairs(sw, dir)) |->
        [index |-> sw[SteppingPairs(sw, dir)[n] + 1].index + 1,
         type |-> IF dir = -1 THEN "bos_down" ELSE "bos_up"]]

\* C27: the confirmation search succeeds at the very next candle: the bos
\* records are, in order, one bos_down at (index of the later swing) + 1 for
\* every consecutive swing-high pair whose later high is lower, then one
\* bos_up at (index of the later swing) + 1 for every consecutive swing-low
\* pair whose later low is higher; there are as many records as such pairs
\* and every bos index is at most n - window.
C27_BosOnNextCandle ==
    Ready =>
      /\ [k \in 1..Len(structures.bos) |->
            [index |-> structures.bos[k].index, type |-> structures.bos[k].type]]
           = NextCandleBos(structures.swing_highs, -1) \o NextCandleBos(structures.swing_lows, 1)
      /\ Len(structures.bos) = Len(SteppingPairs(structures.swing_highs, -1))
                                + Len(SteppingPairs(structures.swing_lows, 1))
      /\ \A k \in 1..Len(structures.bos) : structures.bos[k].index <= N - Window

\* a higher low whose bos_up lies on the candle after it, with later
\* candles that also stay above that low, and a bos on candle n - window
C27_Witness ==
    /\ Ready
    /\ \E k \in 1..Len(structures.bos), m \in 2..Len(structures.swing_lows) :
          /\ structures.bos[k].type = "bos_up"
          /\ structures.bos[k].index = structures.swing_lows[m].index + 1
          /\ structures.bos[k].index + 1 < N
          /\ Low(df, structures.bos[k].index + 1) > structures.swing_lows[m].price
    /\ \E k \in 1..Len(structures.bos) : structures.bos[k].index = N - Window

\* the candles C19 scans for the swing s: the 10 candles after it, cut at
\* the end of the series, that pierce the swing's price and close back
\* (dir = 1: above a swing high; dir = -1: below a swing low)
FailuresAsClaimed(s, dir) ==
    {j \in (s.index + 1)..Min2(s.index + 10, N - 1) :
        IF dir = 1 THEN High(df, j) > s.price /\ Close(df, j) < s.price
        ELSE Low(df, j) < s.price /\ Close(df, j) > s.price}

SfpForAsClaimed(s, dir) ==
    IF FailuresAsClaimed(s, dir) = {} THEN <<>>
    ELSE <<[index |-> CHOOSE j \in FailuresAsClaimed(s, dir) :
                        \A m \in FailuresAsClaimed(s, dir) : j <= m,
            type |-> IF dir = 1 THEN "sfp_top" ELSE "sfp_bottom"]>>

\* C19 (as claimed): the sfp records are, for every swing high of the list,
\* the most recent included, one sfp_top on the first of the 10 candles
\* after it with high above and close below the swing's price, if any, and
\* likewise one sfp_bottom for every swing low.
C19_SfpForEverySwing ==
    Ready =>
      [k \in 1..Len(structures.sfp) |->
          [index |-> structures.sfp[k].index, type |-> structures.sfp[k].type]]
        = Concat([k \in 1..Len(structures.swing_highs) |->
                     SfpForAsClaimed(structures.swing_highs[k], 1)])
          \o Concat([k \in 1..Len(structures.swing_lows) |->
                     SfpForAsClaimed(structures.swing_lows[k], -1)])

\* the most recent swing high is pierced by a candle that closes back below
\* it within the 10 candles after it, and no sfp_top is recorded there
C19_Witness ==
    /\ Ready
    /\ structures.swing_highs # <<>>
    /\ FailuresAsClaimed(structures.swing_highs[Len(structures.swing_highs)], 1) # {}
    /\ structures.sfp = <<>>

\* the impulse test of C20 on candle i+1 (opens are positive): a body in
\* the direction dir of at least 1% of the open
ImpulseAsClaimed(i, dir) ==
    /\ dir * (Close(df, i + 1) - Open(df, i + 1)) > 0
    /\ dir * (Close(df, i + 1) - Open(df, i + 1)) * 100 >= Open(df, i + 1)

\* the candles of the opposite direction among the at most 5 candles i, i-1, ...
OppositeBefore(i, dir) ==
    {j \in Max2(0, i - 4)..i : dir * (Close(df, j) - Open(df, j)) < 0}

ObForAsClaimed(i, dir) ==
    IF ImpulseAsClaimed(i, dir) /\ OppositeBefore(i, dir) # {}
    THEN <<RangeRec(df, CHOOSE j \in OppositeBefore(i, dir) :
                            \A m \in OppositeBefore(i, dir) : m <= j,
                    IF dir = 1 THEN "ob_buy" ELSE "ob_sell")>>
    ELSE <<>>

\* C20 (as claimed): for every candle i with a successor, a bullish candle
\* i+1 with (close - open) / open >= 0.01 records the nearest bearish candle
\* among i, i-1, ..., i-4 as ob_buy with that candle's high and low, and a
\* bearish impulse records the nearest bullish candle as ob_sell; one record
\* per impulse, none when no such candle exists.
C20_OrderBlocksForEveryImpulse ==
    Ready =>
      /\ structures.ob_buy = Concat([k \in 1..(N - 1) |-> ObForAsClaimed(k - 1, 1)])
      /\ structures.ob_sell = Concat([k \in 1..(N - 1) |-> ObForAsClaimed(k - 1, -1)])

\* a bearish candle with a body of exactly 1% of its open comes right after
\* a bullish candle, at an index the scan covers, and no ob_sell is recorded
C20_Witness ==
    /\ Ready
    /\ \E i \in ObLookback..(N - 2) :
          /\ Open(df, i + 1) - Close(df, i + 1) > 0
          /\ (Open(df, i + 1) - Close(df, i + 1)) * 100 = Open(df, i + 1)
          /\ Close(df, i) > Open(df, i)
    /\ structures.ob_sell = <<>>

\* the range of candle i exceeds 1.5 times the mean range of the series
LargeRange(i) ==
    2 * N * CandleRange(df, i) > 3 * SumSeq([k \in 1..N |-> CandleRange(df, k - 1)])

ScAt(i, type, price) ==
    \E k \in 1..Len(structures.sc) :
        /\ structures.sc[k].index = i
        /\ structures.sc[k].type = type
        /\ structures.sc[k].price = price

----------------------------------------------------------------------------
(* Claims about the read operations, checked under SpecReads *)

CallsOf(op) == {k \in 1..Len(returned) : returned[k].op = op}

\* C12: once the detector is constructed, no call of find_optimal_trade_entry,
\* find_trade_setups or get_current_market_context changes the structures or
\* the candle data, and two calls of the same operation give equal results
\* (the same value, or the same exception).
C12_ReadsLeaveDetectorUnchanged ==
    [][/\ pc = "ready" => (structures' = structures /\ df' = df)
       /\ \A i, j \in 1..Len(returned') :
             returned'[i].op = returned'[j].op => returned'[i] = returned'[j]]_vars

\* find_optimal_trade_entry was called twice on a detector with a zone to report
C12_Witness ==
    /\ Ready
    /\ Len(returned) = MaxCalls
    /\ \A k \in 1..Len(returned) :
          returned[k].op = "find_optimal_trade_entry" /\ returned[k].value # <<>>

\* C13 (as claimed): on a series with zero rows the finders leave every
\* list empty, and every call of find_optimal_trade_entry, find_trade_setups
\* and get_current_market_context completes without raising and returns an
\* empty collection.
C13_EmptyInputNeverRaises ==
    (Ready /\ N = 0) =>
      /\ structures = EmptyStructures
      /\ \A k \in 1..Len(returned) : ~returned[k].raised

\* what the code does on zero rows: the finders and the two list-returning
\* operations give empty lists, get_current_market_context raises
C13_EmptyInputAsCoded ==
    (Ready /\ N = 0) =>
      /\ structures = EmptyStructures
      /\ \A k \in 1..Len(returned) :
            IF returned[k].op = "get_current_market_context"
            THEN returned[k].raised
            ELSE ~returned[k].raised /\ returned[k].value = <<>>

\* get_current_market_context was called on a detector built on zero rows
C13_Witness ==
    /\ Ready
    /\ N = 0
    /\ CallsOf("get_current_market_context") # {}
    /\ CallsOf("find_trade_setups") # {}

IsFlatSeries(d) ==
    \A k \in 1..Len(d) : d[k].open = d[k].close /\ d[k].high = d[k].open /\ d[k].low = d[k].open

\* C15: on a series whose candles all have open = close = high = low, of any
\* length, the constructed detector holds no sponsored candle (sc_up,
\* sc_down) and no wick (wick_up, wick_down); construction completes.
C15_FlatSeriesHasNoScNoWick ==
    (Ready /\ IsFlatSeries(df)) => (structures.sc = <<>> /\ structures.wick = <<>>)

\* a constructed detector on a flat series of the greatest length whose
\* candles are not all at the same price
C15_Witness ==
    /\ Ready
    /\ IsFlatSeries(df)
    /\ N = MaxFlatLen
    /\ \E i, j \in 0..(N - 1) : Close(df, i) # Close(df, j)

Near(i, j, span) == j - span <= i /\ i <= j + span

\* the condition C16 gives for a setup from the break b: a zone of the
\* matching kind anchored at a POI within 5 indices of b, and a confirming
\* record (order block, sponsored candle or wick) within 3 indices of b
BosSetupClaimed(b) ==
    /\ \E z \in 1..Len(FindOptimalTradeEntry(df, structures)) :
          /\ FindOptimalTradeEntry(df, structures)[z].type
                = (IF b.type = "bos_up" THEN "ote_buy_premium" ELSE "ote_sell_discount")
          /\ Near(FindOptimalTradeEntry(df, structures)[z].timestamp.ts, b.index, 5)
    /\ \/ \E k \in 1..Len(structures.ob_buy) :
             b.type = "bos_up" /\ Near(b.index, structures.ob_buy[k].index, 3)
       \/ \E k \in 1..Len(structures.ob_sell) :
             b.type = "bos_down" /\ Near(b.index, structures.ob_sell[k].index, 3)
       \/ \E k \in 1..Len(structures.sc) :
             /\ structures.sc[k].type = (IF b.type = "bos_up" THEN "sc_up" ELSE "sc_down")
             /\ Near(b.index, structures.sc[k].index, 3)
       \/ \E k \in 1..Len(structures.wick) :
             /\ structures.wick[k].type = (IF b.type = "bos_up" THEN "wick_down" ELSE "wick_up")
             /\ Near(b.index, structures.wick[k].index, 3)

SetupFrom(rec, type) == [timestamp |-> rec.timestamp, price |-> rec.price, type |-> type]

Occurrences(list, x) == Cardinality({k \in 1..Len(list) : list[k] = x})

\* C16 (as claimed): every call of find_trade_setups returns normally, and
\* for every break b the returned list holds a setup with b's timestamp and
\* price (buy_setup for bos_up, sell_setup for bos_down) exactly when a zone
\* of the matching kind is anchored within 5 indices of b and an order
\* block, sponsored candle or wick of the matching kind lies within 3.
C16_BosSetupsAsClaimed ==
    \A c \in CallsOf("find_trade_setups") :
      /\ ~returned[c].raised
      /\ \A k \in 1..Len(structures.bos) :
            BosSetupClaimed(structures.bos[k])
              <=> Occurrences(returned[c].value,
                             SetupFrom(structures.bos[k],
                                       IF structures.bos[k].type = "bos_up"
                                       THEN "buy_setup" ELSE "sell_setup")) > 0

\* find_trade_setups was called on a detector with a break for which the
\* claimed condition holds, and the call ended with an exception
C16_Witness ==
    /\ Ready
    /\ \E k \in 1..Len(structures.bos) : BosSetupClaimed(structures.bos[k])
    /\ \E c \in CallsOf("find_trade_setups") : returned[c].raised

BosSetupOf(b) == SetupFrom(b, IF b.type = "bos_up" THEN "buy_setup" ELSE "sell_setup")

\* the zones that satisfy the proximity condition for the break b: of b's
\* kind and anchored within 5 indices of b
ZonesNear(b) ==
    SelectSeq(FindOptimalTradeEntry(df, structures),
              LAMBDA z : OteComparisonReached(b, z) /\ Near(z.timestamp.ts, b.index, 5))

C29_NoSetupOfAnyBos ==
    \A c \in CallsOf("find_trade_setups") :
        \A k \in 1..Len(structures.bos) :
            /\ Len(ZonesNear(structures.bos[k])) > 0 => returned[c].raised
            /\ ~returned[c].raised =>
                  Occurrences(returned[c].value, BosSetupOf(structures.bos[k])) = 0

SfpSetupOf(sfp) == SetupFrom(sfp, IF sfp.type = "sfp_top" THEN "sell_setup" ELSE "buy_setup")

\* C17 (as claimed): every call of find_trade_setups returns, for every
\* sfp_top record, one sell_setup and for every sfp_bottom record one
\* buy_setup with the record's timestamp and price, whatever other
\* structures exist: the returned list holds each such setup as many times
\* as there are sfp records giving it.
C17_SfpSetupsUnconditional ==
    \A c \in CallsOf("find_trade_setups") :
      /\ ~returned[c].raised
      /\ \A k \in 1..Len(structures.sfp) :
            Occurrences(returned[c].value, SfpSetupOf(structures.sfp[k]))
              = Cardinality({m \in 1..Len(structures.sfp) :
                               SfpSetupOf(structures.sfp[m]) = SfpSetupOf(structures.sfp[k])})

\* what the code does: a call that returns holds exactly the SFP setups, in
\* the order of the sfp list
C17_SfpSetupsWhenReturning ==
    \A c \in CallsOf("find_trade_setups") :
      ~returned[c].raised =>
        returned[c].value = [k \in 1..Len(structures.sfp) |-> SfpSetupOf(structures.sfp[k])]

\* find_trade_setups was called on a detector holding a failure pattern,
\* and the call ended with an exception
C17_Witness ==
    /\ Ready
    /\ structures.sfp # <<>>
    /\ \E c \in CallsOf("find_trade_setups") : returned[c].raised

Qualifies(p) ==
    \E k \in 1..Len(p.structures) :
        p.structures[k] \in {"ob_buy", "ob_sell", "eqh", "eql", "sfp_top", "sfp_bottom",
                             "wick_up", "wick_down"}

\* the swings of the list before index i, and the one of greatest index
Before(swings, i) == {k \in 1..Len(swings) : swings[k].index < i}
LastBefore(swings, i) ==
    swings[CHOOSE k \in Before(swings, i) : \A m \in Before(swings, i) : m <= k]

\* the zone C22 gives for the POI p (prices in thousandths)
ZoneAsClaimed(p) ==
    IF Trend(df, p.index) = 1
    THEN IF Before(structures.swing_lows, p.index) = {} THEN <<>>
         ELSE <<[timestamp |-> p.timestamp,
                 price_low |-> 1000 * p.price_high
                     - 618 * (p.price_high - LastBefore(structures.swing_lows, p.index).price),
                 price_high |-> 1000 * p.price_high
                     - 500 * (p.price_high - LastBefore(structures.swing_lows, p.index).price),
                 type |-> "ote_buy_premium"]>>
    ELSE IF Before(structures.swing_highs, p.index) = {} THEN <<>>
         ELSE <<[timestamp |-> p.timestamp,
                 price_low |-> 1000 * p.price_low
                     + 500 * (LastBefore(structures.swing_highs, p.index).price - p.price_low),
                 price_high |-> 1000 * p.price_low
                     + 382 * (LastBefore(structures.swing_highs, p.index).price - p.price_low),
                 type |-> "ote_sell_discount"]>>

ZonesAt(zones, p) == SelectSeq(zones, LAMBDA z : z.timestamp = p.timestamp)

\* C22: in every list returned by find_optimal_trade_entry, the zones
\* anchored at a qualifying POI in an uptrend (trend 1) are the one
\* ote_buy_premium zone measured from the swing low of greatest index below
\* the POI's index, with range = price_high - swing low price and bounds
\* price_high - 0.618 * range and price_high - 0.5 * range; in a downtrend
\* (trend -1) the one ote_sell_discount zone measured from the swing high of
\* greatest index below the POI's, with bounds price_low + 0.5 * range and
\* price_low + 0.382 * range; and none when no such swing precedes the POI.
C22_ZoneFromLastSwingBefore ==
    \A c \in CallsOf("find_optimal_trade_entry") :
      \A k \in 1..Len(structures.poi) :
        (Qualifies(structures.poi[k]) /\ Trend(df, structures.poi[k].index) \in {1, -1})
          => ZonesAt(returned[c].value, structures.poi[k]) = ZoneAsClaimed(structures.poi[k])

\* a zone was returned for a POI that has two swing lows of different
\* prices before it, in an uptrend
C22_Witness ==
    /\ Ready
    /\ \E c \in CallsOf("find_optimal_trade_entry"), k \in 1..Len(structures.poi) :
          /\ Trend(df, structures.poi[k].index) = 1
          /\ Cardinality({structures.swing_lows[m].price :
                            m \in Before(structures.swing_lows, structures.poi[k].index)}) = 2
          /\ ZonesAt(returned[c].value, structures.poi[k]) # <<>>

PoisAt(z) == {k \in 1..Len(structures.poi) : structures.poi[k].timestamp = z.timestamp}

\* C23 (as claimed): every zone returned by find_optimal_trade_entry is
\* anchored at a POI whose kinds include one of ob_buy, ob_sell, eqh, eql,
\* sfp_top, sfp_bottom, wick_up, wick_down; an ote_buy_premium zone only at a
\* POI with trend 1 and an ote_sell_discount zone only at a POI with trend
\* -1; no POI has more than one zone.
C23_ZonesGatedByKindAndTrend ==
    \A c \in CallsOf("find_optimal_trade_entry") :
      /\ \A z \in 1..Len(returned[c].value) :
            \E k \in PoisAt(returned[c].value[z]) :
              /\ Qualifies(structures.poi[k])
              /\ returned[c].value[z].type = "ote_buy_premium"
                    => Trend(df, structures.poi[k].index) = 1
              /\ returned[c].value[z].type = "ote_sell_discount"
                    => Trend(df, structures.poi[k].index) = -1
      /\ \A k \in 1..Len(structures.poi) :
            Len(ZonesAt(returned[c].value, structures.poi[k])) <= 1

\* what the code does: the sell zone is produced for every trend that is
\* not positive, the sideways trend 0 included
C23_ZonesGatedAsCoded ==
    \A c \in CallsOf("find_optimal_trade_entry") :
      /\ \A z \in 1..Len(returned[c].value) :
            \E k \in PoisAt(returned[c].value[z]) :
              /\ Qualifies(structures.poi[k])
              /\ returned[c].value[z].type = "ote_buy_premium"
                    <=> Trend(df, structures.poi[k].index) > 0
              /\ returned[c].value[z].type = "ote_sell_discount"
                    <=> Trend(df, structures.poi[k].index) <= 0
      /\ \A k \in 1..Len(structures.poi) :
            Len(ZonesAt(returned[c].value, structures.poi[k])) <= 1

\* an ote_sell_discount zone was returned for a POI on a candle whose trend is 0
C23_Witness ==
    /\ Ready
    /\ \E c \in CallsOf("find_optimal_trade_entry") : \E z \in 1..Len(returned[c].value) :
          /\ returned[c].value[z].type = "ote_sell_discount"
          /\ \E k \in PoisAt(returned[c].value[z]) : Trend(df, structures.poi[k].index) = 0

\* C28: every zone returned by find_optimal_trade_entry is a well-formed
\* band, price_low <= price_high, for both kinds and every series.
C28_ZonesWellFormed ==
    \A c \in CallsOf("find_optimal_trade_entry") :
        \A z \in 1..Len(returned[c].value) :
            returned[c].value[z].price_low <= returned[c].value[z].price_high

\* what the code gives on the family, where every zone is measured over a
\* positive swing range: ote_buy_premium bands are well-formed and
\* ote_sell_discount bands have price_low above price_high
C28_SellZonesInverted ==
    \A c \in CallsOf("find_optimal_trade_entry") :
        \A z \in 1..Len(returned[c].value) :
            IF returned[c].value[z].type = "ote_buy_premium"
            THEN returned[c].value[z].price_low < returned[c].value[z].price_high
            ELSE returned[c].value[z].price_low > returned[c].value[z].price_high

\* a returned ote_sell_discount zone below the preceding swing high whose
\* price_low lies above its price_high
C28_Witness ==
    \E c \in CallsOf("find_optimal_trade_entry") :
        \E z \in 1..Len(returned[c].value) :
            /\ returned[c].value[z].type = "ote_sell_discount"
            /\ returned[c].value[z].price_low > returned[c].value[z].price_high
            /\ \E k \in PoisAt(returned[c].value[z]) :
                  \E m \in 1..Len(structures.swing_highs) :
                     /\ structures.swing_highs[m].index < structures.poi[k].index
                     /\ structures.swing_highs[m].price > structures.poi[k].price_low

\* the levels of C24, in halves of a price unit: swing-low prices and
\* ob_buy midpoints below the last close, swing-high prices and ob_sell
\* midpoints above it
SupportsAsClaimed ==
    {x \in {2 * structures.swing_lows[k].price : k \in 1..Len(structures.swing_lows)}
          \cup {structures.ob_buy[k].price_high + structures.ob_buy[k].price_low :
                   k \in 1..Len(structures.ob_buy)} :
        x < 2 * Close(df, N - 1)}

ResistancesAsClaimed ==
    {x \in {2 * structures.swing_highs[k].price : k \in 1..Len(structures.swing_highs)}
          \cup {structures.ob_sell[k].price_high + structures.ob_sell[k].price_low :
                   k \in 1..Len(structures.ob_sell)} :
        x > 2 * Close(df, N - 1)}

\* C24: in every market context returned, nearest_support is the greatest
\* of the swing-low prices and ob_buy midpoints strictly below the last
\* close, absent when there is none, and nearest_resistance the least of the
\* swing-high prices and ob_sell midpoints strictly above it, absent when
\* there is none; so when both are present nearest_support < last close <
\* nearest_resistance.
C24_NearestLevels ==
    \A c \in CallsOf("get_current_market_context") :
      ~returned[c].raised =>
        /\ returned[c].value[1].nearest_support
              = (IF SupportsAsClaimed = {} THEN <<>>
                 ELSE <<CHOOSE x \in SupportsAsClaimed : \A y \in SupportsAsClaimed : y <= x>>)
        /\ returned[c].value[1].nearest_resistance
              = (IF ResistancesAsClaimed = {} THEN <<>>
                 ELSE <<CHOOSE x \in ResistancesAsClaimed : \A y \in ResistancesAsClaimed : x <= y>>)
        /\ \A k \in 1..Len(returned[c].value[1].nearest_support) :
              returned[c].value[1].nearest_support[k] < returned[c].value[1].close
        /\ \A k \in 1..Len(returned[c].value[1].nearest_resistance) :
              returned[c].value[1].nearest_resistance[k] > returned[c].value[1].close

\* a context with both levels present, the resistance an ob_sell midpoint,
\* on a detector that also holds an ob_buy whose midpoint equals the last
\* close
C24_Witness ==
    /\ Ready
    /\ \E c \in CallsOf("get_current_market_context") :
          /\ ~returned[c].raised
          /\ returned[c].value[1].nearest_support # <<>>
          /\ \E k \in 1..Len(structures.ob_sell) :
                <<structures.ob_sell[k].price_high + structures.ob_sell[k].price_low>>
                   = returned[c].value[1].nearest_resistance
    /\ \E k \in 1..Len(structures.ob_buy) :
          structures.ob_buy[k].price_high + structures.ob_buy[k].price_low = 2 * Close(df, N - 1)

----------------------------------------------------------------------------
(* Claims about the backtest.  SpecBacktest runs the repository's detector; *)
(* since that detector never places a setup on the last candle of the      *)
(* series it analyses, no trade is opened there, and the claims about the  *)
(* trade simulation are checked under SpecSim, where setups are supplied.  *)

Returned(r) == Len(results) >= r /\ results[r].outcome = "result"
TradesOf(r) == results[r].trades
StepOf(t) == t.timestamp.ts
IsLong(t) == t.type = "buy_setup"
Sign(t) == IF IsLong(t) THEN 1 ELSE -1

\* the range of the 20 candles ending at candle i, and the two levels of a
\* trade entered after candle i, from the series itself
RangeOver(i) ==
    LET js == Max2(0, i - 19)..i
    IN (CHOOSE h \in {High(df, j) : j \in js} : \A j \in js : High(df, j) <= h)
       - (CHOOSE l \in {Low(df, j) : j \in js} : \A j \in js : l <= Low(df, j))
StopOf(t) == RSub(RInt(Open(df, StepOf(t) + 1)), Rat(Sign(t) * RangeOver(StepOf(t)), 2))
TargetOf(t) == RAdd(RInt(Open(df, StepOf(t) + 1)), Rat(3 * Sign(t) * RangeOver(StepOf(t)), 2))
TouchesStop(t, j) ==
    IF IsLong(t) THEN RLe(RInt(Low(df, j)), StopOf(t)) ELSE RLe(StopOf(t), RInt(High(df, j)))
TouchesTarget(t, j) ==
    IF IsLong(t) THEN RLe(TargetOf(t), RInt(High(df, j))) ELSE RLe(RInt(Low(df, j)), TargetOf(t))
Touches(t, j) == TouchesStop(t, j) \/ TouchesTarget(t, j)

\* C1: no look-ahead.  When the two calls have both entered step i and their
\* series agree on candles 0..i, step i has the same outcome in both: the
\* same accepted setups, or the same failure of find_trade_setups, whatever
\* the candles after i are.
C1_NoLookAhead ==
    Len(results) = 2 =>
        \A a \in 1..Len(results[1].steps), b \in 1..Len(results[2].steps) :
            (/\ results[1].steps[a].i = results[2].steps[b].i
             /\ Prefix(df, results[1].steps[a].i + 1) = Prefix(df2, results[1].steps[a].i + 1))
            => results[1].steps[a] = results[2].steps[b]

\* two series that differ after the warm-up, both run through, the first
\* step of each analysing a snapshot on which the detector reports a setup
C1_Witness ==
    /\ Len(results) = 2
    /\ df # df2
    /\ Prefix(df, WarmUp + 1) = Prefix(df2, WarmUp + 1)
    /\ results[1].outcome = "result" /\ results[2].outcome = "result"
    /\ Len(results[1].steps) > 1 /\ Len(results[2].steps) > 1
    /\ FindTradeSetups(Prefix(df, WarmUp + 1), FindStructures(Prefix(df, WarmUp + 1))).setups # <<>>

\* C2: every recorded trade carries the timestamp of a candle i with
\* 50 <= i <= n-2, answers a setup that the detector reported at step i with
\* exactly that timestamp, and has entry_price equal to the open of candle
\* i+1; a setup reported on an earlier candle opens no trade: step i records
\* as many trades as it was given setups on candle i.
C2_TradeOnlyOnLastCandle ==
    Returned(1) =>
        /\ \A k \in 1..Len(TradesOf(1)) :
              LET t == TradesOf(1)[k]
              IN /\ \E i \in 50..(Len(df) - 2) : t.timestamp = Timestamp(df, i)
                 /\ StepOf(t) \in DOMAIN detector.answers
                 /\ \E m \in 1..Len(detector.answers[StepOf(t)]) :
                       /\ detector.answers[StepOf(t)][m].timestamp = t.timestamp
                       /\ detector.answers[StepOf(t)][m].type = t.type
                 /\ t.entry_price = RInt(Open(df, StepOf(t) + 1))
        /\ \A i \in DOMAIN detector.answers :
              Cardinality({k \in 1..Len(TradesOf(1)) : StepOf(TradesOf(1)[k]) = i})
                = Cardinality({m \in 1..Len(detector.answers[i]) :
                                 detector.answers[i][m].timestamp = Timestamp(df, i)})

\* a step at which the detector reports a setup on the last candle and one
\* on an earlier candle, and the run records a trade
C2_Witness ==
    /\ Returned(1)
    /\ Len(TradesOf(1)) >= 1
    /\ \E m \in 1..Len(detector.answers[WarmUp]) :
          detector.answers[WarmUp][m].timestamp # Timestamp(df, WarmUp)
    /\ Open(df, WarmUp + 1) # Open(df, WarmUp)

C4_FirstTouchStopFirst ==
    Returned(1) =>
        \A k \in 1..Len(TradesOf(1)) :
            LET t == TradesOf(1)[k]
                after == {j \in (StepOf(t) + 1)..(Len(df) - 1) : Touches(t, j)}
            IN t.exit_reason # "timeout" =>
                 /\ after # {}
                 /\ LET first == CHOOSE j \in after : \A m \in after : j <= m
                    IN IF TouchesStop(t, first)
                       THEN t.exit_reason = "stop_loss" /\ t.exit_price = StopOf(t)
                       ELSE t.exit_reason = "take_profit" /\ t.exit_price = TargetOf(t)

\* a long and a short whose first touching candle touches both levels
C4_Witness ==
    /\ Returned(1)
    /\ \E k \in 1..Len(TradesOf(1)) :
          LET t == TradesOf(1)[k]
          IN /\ IsLong(t) /\ t.exit_reason = "stop_loss"
             /\ \E j \in (StepOf(t) + 2)..(Len(df) - 1) :
                   /\ TouchesStop(t, j) /\ TouchesTarget(t, j)
                   /\ \A m \in (StepOf(t) + 1)..(j - 1) : ~Touches(t, m)
    /\ \E k \in 1..Len(TradesOf(1)) :
          LET t == TradesOf(1)[k]
          IN /\ ~IsLong(t) /\ t.exit_reason = "stop_loss"
             /\ \E j \in (StepOf(t) + 2)..(Len(df) - 1) :
                   /\ TouchesStop(t, j) /\ TouchesTarget(t, j)
                   /\ \A m \in (StepOf(t) + 1)..(j - 1) : ~Touches(t, m)

\* C5: equity law.  The equity recorded by trade k is the equity recorded by
\* trade k-1 (1000 for the first trade) times (1 + pnl_pct_k / 100);
\* final_equity is the equity of the last trade, or 1000 without trades, and
\* roi = (final_equity - 1000) / 1000 * 100.
C5_EquityLaw ==
    Returned(1) =>
        /\ \A k \in 1..Len(TradesOf(1)) :
              TradesOf(1)[k].equity
                = RMul(IF k = 1 THEN RInt(1000) ELSE TradesOf(1)[k - 1].equity,
                       RAdd(RInt(1), RDiv(TradesOf(1)[k].pnl_pct, RInt(100))))
        /\ results[1].final_equity
              = (IF TradesOf(1) = <<>> THEN RInt(1000) ELSE TradesOf(1)[Len(TradesOf(1))].equity)
        /\ results[1].roi
              = RMul(RDiv(RSub(results[1].final_equity, RInt(1000)), RInt(1000)), RInt(100))

\* a gain followed by a loss, so that the second trade starts from an equity
\* other than 1000
C5_Witness ==
    /\ Returned(1)
    /\ Len(TradesOf(1)) >= 2
    /\ TradesOf(1)[1].pnl.n > 0
    /\ TradesOf(1)[2].pnl.n < 0
    /\ results[1].final_equity # RInt(1000)

\* the running peak after trade k: the greatest of 1000 and the equities
\* recorded up to and including trade k
PeakAt(k) ==
    CHOOSE p \in {RInt(1000)} \cup {TradesOf(1)[j].equity : j \in 1..k} :
        \A q \in {RInt(1000)} \cup {TradesOf(1)[j].equity : j \in 1..k} : RLe(q, p)

DrawdownAt(k) ==
    RMul(RDiv(RSub(PeakAt(k), TradesOf(1)[k].equity), PeakAt(k)), RInt(100))

\* C18: max_drawdown is the greatest, over the trades k, of
\* (peak_k - equity_k) / peak_k * 100 with peak_k the maximum of 1000 and the
\* equities recorded up to and including trade k; it is 0 without trades and
\* when the equity never falls below its running peak, and never negative.
C18_MaxDrawdownFromRunningPeak ==
    Returned(1) =>
        /\ results[1].max_drawdown
              \in {RInt(0)} \cup {DrawdownAt(k) : k \in 1..Len(TradesOf(1))}
        /\ \A k \in 1..Len(TradesOf(1)) : RLe(DrawdownAt(k), results[1].max_drawdown)
        /\ RLe(RInt(0), results[1].max_drawdown)
        /\ (\A k \in 1..Len(TradesOf(1)) : TradesOf(1)[k].equity = PeakAt(k))
              => results[1].max_drawdown = RInt(0)

\* a gain that lifts the peak above 1000, then a loss from that peak
C18_Witness ==
    /\ Returned(1)
    /\ Len(TradesOf(1)) >= 2
    /\ RLt(RInt(1000), TradesOf(1)[1].equity)
    /\ RLt(TradesOf(1)[2].equity, TradesOf(1)[1].equity)
    /\ results[1].max_drawdown = DrawdownAt(2)
    /\ RLt(RInt(0), results[1].max_drawdown)

\* C14, the equal-level part, which the code satisfies (checked under
\* SpecReads): a consecutive swing pair whose earlier price is 0 gives no eqh
\* or eql record on the later swing, and the construction completes.
C14_ZeroSwingGivesNoEqualLevel ==
    Ready =>
      /\ \A k \in 1..(Len(structures.swing_lows) - 1) :
            structures.swing_lows[k].price = 0
              => structures.swing_lows[k + 1].index \notin Indices(structures.eql)
      /\ \A k \in 1..(Len(structures.swing_highs) - 1) :
            structures.swing_highs[k].price = 0
              => structures.swing_highs[k + 1].index \notin Indices(structures.eqh)

C14_ZeroSwingReached ==
    /\ Ready
    /\ \E k \in 1..(Len(structures.swing_lows) - 1) :
          structures.swing_lows[k].price = 0 /\ structures.swing_lows[k + 1].price = 0

C25_TradeLevels ==
    Returned(1) =>
        \A k \in 1..Len(TradesOf(1)) :
            LET t == TradesOf(1)[k]
            IN /\ t.entry_price = RInt(Open(df, StepOf(t) + 1))
               /\ t.exit_reason = "stop_loss" =>
                     /\ t.exit_price = StopOf(t)
                     /\ RangeOver(StepOf(t)) > 0 => RLt(t.pnl, RInt(0))
               /\ t.exit_reason = "take_profit" =>
                     /\ t.exit_price = TargetOf(t)
                     /\ RangeOver(StepOf(t)) > 0 => RLt(RInt(0), t.pnl)

\* a run with a short stopped out and a long that reaches its target, both
\* with a positive range that the accepting candle itself widens
C25_Witness ==
    /\ Returned(1)
    /\ \E k \in 1..Len(TradesOf(1)) :
          /\ ~IsLong(TradesOf(1)[k]) /\ TradesOf(1)[k].exit_reason = "stop_loss"
          /\ RangeOver(StepOf(TradesOf(1)[k])) > 0
    /\ \E k \in 1..Len(TradesOf(1)) :
          /\ IsLong(TradesOf(1)[k]) /\ TradesOf(1)[k].exit_reason = "take_profit"
          /\ RangeOver(StepOf(TradesOf(1)[k])) > RangeOver(StepOf(TradesOf(1)[k]) - 1)

\* the series of backtest call r, and what find_trade_setups gives on the
\* snapshot of step i of that call
SeriesOf(r) == IF r = 1 THEN df ELSE df2
FoundAt(r, i) == TradeSetupsOn(detector, Snapshot(SeriesOf(r), i), i)

\* every setup returned on the snapshots of call r lies before the
\* snapshot's last candle
SetupsBeforeLast(r) ==
    \A i \in WarmUp..(Len(SeriesOf(r)) - 2) :
        LET found == FoundAt(r, i).setups
        IN ~FoundAt(r, i).raised => \A m \in 1..Len(found) : found[m].timestamp.ts < i

\* C26: on every analysed snapshot of n candles each setup returned by
\* find_trade_setups lies at an index below n-1, so the acceptance test of
\* the backtest never succeeds, and for every input series the backtest
\* gives a result with total_trades = 0 and final_equity = 1000.
C26_NoSetupOnLastCandleNoTrade ==
    \A r \in 1..Len(results) :
        /\ SetupsBeforeLast(r)
        /\ results[r].outcome = "result"
        /\ results[r].total_trades = 0
        /\ results[r].final_equity = RInt(1000)

\* what the code gives: the same, for the calls that return a result
C26_NoTradeWhenReturning ==
    \A r \in 1..Len(results) :
        /\ SetupsBeforeLast(r)
        /\ results[r].outcome = "result" =>
              /\ results[r].total_trades = 0
              /\ results[r].final_equity = RInt(1000)
              /\ \A k \in 1..Len(results[r].steps) : results[r].steps[k].accepted = <<>>

\* a call on a series with sideways trend that find_trade_setups leaves by
\* raising at the first step, so that no result is given
C26_Witness ==
    /\ Len(results) >= 1
    /\ results[1].outcome = "raised"
    /\ results[1].steps[1].i = WarmUp
    /\ \A k \in 1..Len(df) : df[k].trend = 0

----------------------------------------------------------------------------
(* Claims about the monitoring loop, checked under SpecMonitor *)

Log == assistant.log
LastOutcome == IF Log = <<>> THEN "none" ELSE Log[Len(Log)].outcome
Successful == {k \in 1..Len(Log) : Log[k].outcome \in {"quiet", "setups"}}

\* the k-th analysis of the loop is that of pair ((k-1) mod pairs)+1 of
\* cycle ((k-1) div pairs)+1: every pair once per cycle, in the listed order
AnalysedInOrder ==
    \A k \in 1..Len(Log) :
        /\ Log[k].cycle = ((k - 1) \div PairCount(assistant)) + 1
        /\ Log[k].at = ((k - 1) % PairCount(assistant)) + 1

\* the sleep is reached with every pair of the cycle analysed, and one
\* sleep separates two cycles
SleepAfterWholeCycle ==
    /\ pc = "sleep" => Len(Log) = assistant.cycle * PairCount(assistant)
    /\ assistant.slept = assistant.cycle - 1

\* last_analysis is that of the latest analysis that returned a result,
\* and is absent before the first one
LastAnalysisOfLatestSuccess ==
    IF Successful = {} THEN assistant.last_analysis = <<>>
    ELSE /\ assistant.last_analysis # <<>>
         /\ assistant.last_analysis[1].result.timestamp
               = (CHOOSE k \in Successful : \A m \in Successful : m <= k)

\* C30: the loop is serial; in every cycle each (symbol, timeframe) pair is
\* analysed exactly once, in the listed order, before the sleep; a pair
\* whose fetch yields nothing is skipped and the loop goes on; a
\* notification is sent for a pair exactly when its analysis returns at
\* least one setup, after which the loop goes on with the next pair and the
\* next cycle; last_analysis is replaced only by a successful analysis.
C30_MonitoringLoop ==
    /\ AnalysedInOrder
    /\ SleepAfterWholeCycle
    /\ LastOutcome = "nothing" => pc \in {"loop", "sleep"}
    /\ \A k \in 1..Len(Log) :
          (k < Len(Log) \/ pc # "notify") =>
              (Log[k].outcome = "setups"
                 <=> \E m \in 1..Len(assistant.sent) :
                        assistant.sent[m] = [cycle |-> Log[k].cycle, at |-> Log[k].at])
    /\ (LastOutcome = "setups" /\ pc # "notify") => pc \in {"loop", "sleep"}
    /\ LastAnalysisOfLatestSuccess

\* what the code gives: the order, the sleep, the skip of a pair without
\* data and the rule of last_analysis are as claimed; no notification is
\* ever sent, and the loop is left for good at the first analysis that
\* returns a setup or raises
C30_LoopEndsAtFirstSetup ==
    /\ AnalysedInOrder
    /\ SleepAfterWholeCycle
    /\ LastOutcome = "nothing" => pc \in {"loop", "sleep"}
    /\ LastAnalysisOfLatestSuccess
    /\ assistant.sent = <<>>
    /\ \A k \in 1..(Len(Log) - 1) : Log[k].outcome \in {"nothing", "quiet"}
    /\ LastOutcome = "raised" => pc = "stopped"
    /\ LastOutcome = "setups" => pc \in {"notify", "stopped"}
    /\ pc = "stopped" => LastOutcome \in {"raised", "setups"}

\* in the second cycle, after a pair without data was skipped, an analysis
\* returned a setup and became last_analysis; the loop has been left with
\* nothing sent and a pair of the cycle not analysed
C30_Witness ==
    /\ pc = "stopped"
    /\ LastOutcome = "setups"
    /\ assistant.cycle = 2
    /\ assistant.sent = <<>>
    /\ assistant.at < PairCount(assistant)
    /\ \E k \in 1..(Len(Log) - 1) : Log[k].outcome = "nothing"
    /\ assistant.last_analysis[1].result.timestamp = Len(Log)

============================================================================
